---- MODULE Spec2Model ----
(***************************************************************************)
(* A model of distiller.go: the directory walk of analyzeDirRecursive with *)
(* its global registries, the Go extractor's method merge, the HTML        *)
(* cross-reference resolver, and the pattern-based PHP and Python          *)
(* extractors (block-end location, nested control flow, scope predicates). *)
(***************************************************************************)
EXTENDS Integers, Sequences, FiniteSets, TLC

(***************************************************************************)
(* Bounds of the model.                                                    *)
(***************************************************************************)
MaxFiles == 3

(***************************************************************************)
(* Strings.  Go strings are modelled by TLA+ strings; the helpers below    *)
(* are the functions of package strings the program uses.                  *)
(***************************************************************************)
CharAt(s, i) == SubSeq(s, i, i)

HasPrefix(s, p) == Len(p) <= Len(s) /\ SubSeq(s, 1, Len(p)) = p

HasSuffix(s, p) == Len(p) <= Len(s) /\ SubSeq(s, Len(s) - Len(p) + 1, Len(s)) = p

Contains(s, sub) ==
    \E i \in 1..(Len(s) - Len(sub) + 1) : SubSeq(s, i, i + Len(sub) - 1) = sub

TrimSuffix(s, p) == IF HasSuffix(s, p) THEN SubSeq(s, 1, Len(s) - Len(p)) ELSE s

TrimPrefix(s, p) == IF HasPrefix(s, p) THEN SubSeq(s, Len(p) + 1, Len(s)) ELSE s

UpperChars == "ABCDEFGHIJKLMNOPQRSTUVWXYZ"
LowerChars == "abcdefghijklmnopqrstuvwxyz"
DigitChars == "0123456789"

LowerChar(c) ==
    IF \E k \in 1..Len(UpperChars) : CharAt(UpperChars, k) = c
    THEN CharAt(LowerChars, CHOOSE k \in 1..Len(UpperChars) : CharAt(UpperChars, k) = c)
    ELSE c

RECURSIVE ToLower(_)
ToLower(s) ==
    IF Len(s) = 0 THEN s
    ELSE LowerChar(CharAt(s, 1)) \o ToLower(SubSeq(s, 2, Len(s)))

\* [a-zA-Z0-9_]
IsWordChar(c) ==
    \/ c = "_"
    \/ \E k \in 1..Len(UpperChars) : CharAt(UpperChars, k) = c
    \/ \E k \in 1..Len(LowerChars) : CharAt(LowerChars, k) = c
    \/ \E k \in 1..Len(DigitChars) : CharAt(DigitChars, k) = c

\* strings.Split(s, sep)[0] for a one-character separator
BeforeFirst(s, sep) ==
    IF Contains(s, sep)
    THEN SubSeq(s, 1, (CHOOSE i \in 1..Len(s) :
                          /\ CharAt(s, i) = sep
                          /\ \A k \in 1..(i - 1) : CharAt(s, k) # sep) - 1)
    ELSE s

\* the last element of strings.Split(s, sep) for a one-character separator
AfterLast(s, sep) ==
    IF Contains(s, sep)
    THEN SubSeq(s, (CHOOSE i \in 1..Len(s) :
                       /\ CharAt(s, i) = sep
                       /\ \A k \in (i + 1)..Len(s) : CharAt(s, k) # sep) + 1, Len(s))
    ELSE s

RECURSIVE TrimTrailingSlashes(_)
TrimTrailingSlashes(s) ==
    IF Len(s) > 0 /\ CharAt(s, Len(s)) = "/"
    THEN TrimTrailingSlashes(SubSeq(s, 1, Len(s) - 1))
    ELSE s

\* filepath.Base on a '/'-separated path
Base(path) ==
    IF path = "" THEN "."
    ELSE LET t == TrimTrailingSlashes(path)
         IN  IF t = "" THEN "/" ELSE AfterLast(t, "/")

\* the permutations of a finite set, as sequences: the orders in which a
\* `range` over a Go map may visit its keys
Perms(S) ==
    { p \in [1..Cardinality(S) -> S] : \A i, j \in DOMAIN p : i # j => p[i] # p[j] }

\* appendIfNotExists mutated: the item is appended even when present
appendIfNotExists_Always(slice, item) == Append(slice, item)

\* appendIfNotExists
appendIfNotExists(slice, item) ==
    IF \E i \in 1..Len(slice) : slice[i] = item THEN slice ELSE Append(slice, item)


\* a fixed enumeration of a finite set
RECURSIVE SetToSeq(_)
SetToSeq(S) ==
    IF S = {} THEN <<>>
    ELSE LET x == CHOOSE y \in S : TRUE IN <<x>> \o SetToSeq(S \ {x})

\* map assignment mutated: a key already present keeps its value
MapPut_KeepFirst(m, k, v) == IF k \in DOMAIN m THEN m ELSE (k :> v) @@ m

\* map assignment m[k] = v
MapPut(m, k, v) == (k :> v) @@ m

EmptyMap == <<>>

(***************************************************************************)
(* The Go extractor (analyzeGoFile).  A Go file is what go/parser returns  *)
(* for it: parseOK (err == nil) and the top-level declarations in source   *)
(* order, which is the order in which ast.Inspect visits them.  A          *)
(* declaration is [d, name, recv, line] with d one of "import", "var",     *)
(* "func" (recv # "" for a method; recv keeps a leading "*"), "type"       *)
(* (a struct type) and "interface".  A function declaration has a body,    *)
(* the list of its statements: an expression statement [s |-> "expr", x],  *)
(* an if [s |-> "if", line, body, els] (els holds the statements of the    *)
(* else branch), a for [s |-> "for", line, body], a switch                 *)
(* [s |-> "switch", line, clauses] (one statement list per case clause)    *)
(* and a block [s |-> "block", body].  An expression is an identifier      *)
(* [e |-> "ident", name], a selector [e |-> "sel", x, sel] or a call       *)
(* [e |-> "call", fun, args].  Conditions, init and post statements and    *)
(* function literals are not part of the model.                            *)
(***************************************************************************)
GoFileSummary(path) ==
    [FilePath |-> path, Variables |-> <<>>, Functions |-> <<>>, ControlFlows |-> <<>>,
     Structs |-> <<>>, Interfaces |-> <<>>, Imports |-> <<>>]

\* exprToString on an identifier, a selector or a call (a call is none of
\* its cases: it is printed as its Go type)
RECURSIVE exprToString(_)
exprToString(expr) ==
    CASE expr.e = "ident" -> expr.name
      [] expr.e = "sel" -> exprToString(expr.x) \o "." \o expr.sel
      [] OTHER -> "<*ast.CallExpr>"

\* the names the callback of ast.Inspect(funcDecl.Body, ...) hands to
\* appendIfNotExists, in the order of the walk: a call before the calls in
\* its callee and its arguments
RECURSIVE ExprCalls(_)
RECURSIVE ExprListCalls(_)
ExprCalls(expr) ==
    CASE expr.e = "call" ->
           (IF expr.fun.e = "ident" THEN <<expr.fun.name>>
            ELSE IF expr.fun.e = "sel" THEN <<exprToString(expr.fun)>>
            ELSE <<>>)
             \o ExprCalls(expr.fun) \o ExprListCalls(expr.args)
      [] expr.e = "sel" -> ExprCalls(expr.x)
      [] OTHER -> <<>>

ExprListCalls(exprs) ==
    IF exprs = <<>> THEN <<>> ELSE ExprCalls(Head(exprs)) \o ExprListCalls(Tail(exprs))

RECURSIVE StmtListCalls(_)
RECURSIVE ClauseListCalls(_)
StmtListCalls(stmts) ==
    IF stmts = <<>> THEN <<>>
    ELSE LET x == Head(stmts)
         IN  (CASE x.s = "expr" -> ExprCalls(x.x)
                [] x.s = "if" -> StmtListCalls(x.body) \o StmtListCalls(x.els)
                [] x.s = "switch" -> ClauseListCalls(x.clauses)
                [] OTHER -> StmtListCalls(x.body))
               \o StmtListCalls(Tail(stmts))

ClauseListCalls(clauses) ==
    IF clauses = <<>> THEN <<>>
    ELSE StmtListCalls(Head(clauses)) \o ClauseListCalls(Tail(clauses))

RECURSIVE AppendCalls(_, _)
AppendCalls(calls, names) ==
    IF names = <<>> THEN calls
    ELSE AppendCalls(appendIfNotExists(calls, Head(names)), Tail(names))

\* extractFunction: the receiver loses its pointer asterisk; Calls are the
\* callees found in the body
extractFunction(decl) ==
    [Name |-> decl.name, Receiver |-> TrimPrefix(decl.recv, "*"), Line |-> decl.line,
     Calls |-> AppendCalls(<<>>, StmtListCalls(decl.body))]

\* extractNestedControlFlow on the statement list of a block
RECURSIVE extractNestedControlFlow(_)
RECURSIVE CaseBlockChildren(_)
RECURSIVE SwitchChildren(_)
extractNestedControlFlow(list) ==
    IF list = <<>> THEN <<>>
    ELSE LET x == Head(list)
         IN  (CASE x.s \in {"if", "for"} ->
                     <<[Type |-> x.s, Line |-> x.line,
                        Children |-> extractNestedControlFlow(x.body)]>>
                [] x.s = "switch" ->
                     <<[Type |-> "switch", Line |-> x.line,
                        Children |-> SwitchChildren(x.clauses)]>>
                [] OTHER -> <<>>)
               \o extractNestedControlFlow(Tail(list))

\* the loop over the statements of one case clause: only a statement that
\* is a block is searched
CaseBlockChildren(caseStmts) ==
    IF caseStmts = <<>> THEN <<>>
    ELSE (IF Head(caseStmts).s = "block"
          THEN extractNestedControlFlow(Head(caseStmts).body) ELSE <<>>)
           \o CaseBlockChildren(Tail(caseStmts))

\* the loop over the case clauses of a switch
SwitchChildren(clauses) ==
    IF clauses = <<>> THEN <<>>
    ELSE CaseBlockChildren(Head(clauses)) \o SwitchChildren(Tail(clauses))

\* the control-flow cases of the callback of ast.Inspect(node, ...) on the
\* statements of a list and, after each, on the statements inside it
RECURSIVE InspectStmts(_)
RECURSIVE InspectClauses(_)
InspectStmts(list) ==
    IF list = <<>> THEN <<>>
    ELSE LET x == Head(list)
         IN  (CASE x.s = "if" ->
                     <<[Type |-> "if", Line |-> x.line,
                        Children |-> extractNestedControlFlow(x.body)]>>
                       \o InspectStmts(x.body) \o InspectStmts(x.els)
                [] x.s = "for" ->
                     <<[Type |-> "for", Line |-> x.line,
                        Children |-> extractNestedControlFlow(x.body)]>>
                       \o InspectStmts(x.body)
                [] x.s = "switch" ->
                     <<[Type |-> "switch", Line |-> x.line,
                        Children |-> SwitchChildren(x.clauses)]>>
                       \o InspectClauses(x.clauses)
                [] x.s = "block" -> InspectStmts(x.body)
                [] OTHER -> <<>>)
               \o InspectStmts(Tail(list))

InspectClauses(clauses) ==
    IF clauses = <<>> THEN <<>>
    ELSE InspectStmts(Head(clauses)) \o InspectClauses(Tail(clauses))

\* the import loop over node.Imports
GoImports(decls) ==
    LET imps == SelectSeq(decls, LAMBDA x : x.d = "import")
    IN  [i \in 1..Len(imps) |-> [Path |-> imps[i].name]]

\* the loop over node.Decls that collects the top-level variables
GoGlobalVars(decls) ==
    LET vs == SelectSeq(decls, LAMBDA x : x.d = "var")
    IN  [i \in 1..Len(vs) |-> [Name |-> vs[i].name, Scope |-> "global", Line |-> vs[i].line]]

\* one callback of ast.Inspect, on the declaration x; st = [summary, allStructs]
InspectNode(st, x) ==
    CASE x.d = "func" ->
           LET function == extractFunction(x)
               recvType == TrimPrefix(x.recv, "*")
               s1 == [st.summary EXCEPT !.Functions = Append(@, function),
                                        !.ControlFlows = @ \o InspectStmts(x.body)]
           IN  IF x.recv # "" /\ recvType \in DOMAIN st.allStructs
               THEN [summary |-> s1,
                     allStructs |-> [st.allStructs EXCEPT
                                       ![recvType].Methods = Append(@, function)]]
               ELSE [summary |-> s1, allStructs |-> st.allStructs]
      [] x.d = "type" ->
           LET structure == [Name |-> x.name, Fields |-> <<>>, Methods |-> <<>>, Line |-> 0]
           IN  [summary |-> [st.summary EXCEPT !.Structs = Append(@, structure)],
                allStructs |-> MapPut(st.allStructs, x.name, structure)]
      [] x.d = "interface" ->
           [summary |-> [st.summary EXCEPT
                           !.Interfaces = Append(@, [Name |-> x.name, Methods |-> <<>>])],
            allStructs |-> st.allStructs]
      [] OTHER -> st

\* ast.Inspect(node, ...): the declarations in source order
RECURSIVE InspectDecls(_, _)
InspectDecls(st, decls) ==
    IF decls = <<>> THEN st
    ELSE InspectDecls(InspectNode(st, Head(decls)), Tail(decls))

\* the final loop "Update struct methods"
UpdateStructMethods(structs, allStructs) ==
    [i \in 1..Len(structs) |->
        IF structs[i].Name \in DOMAIN allStructs
           /\ Len(allStructs[structs[i].Name].Methods) > 0
        THEN [structs[i] EXCEPT !.Methods = allStructs[structs[i].Name].Methods]
        ELSE structs[i]]

\* analyzeGoFile mutated: the parse error is ignored
analyzeGoFile_IgnoreParseError(file, allStructs) ==
    LET s0 == [GoFileSummary(file.path) EXCEPT
                 !.Imports = GoImports(file.decls),
                 !.Variables = GoGlobalVars(file.decls)]
        st == InspectDecls([summary |-> s0, allStructs |-> allStructs], file.decls)
    IN  [summary |-> [st.summary EXCEPT
                        !.Structs = UpdateStructMethods(@, st.allStructs)],
         allStructs |-> st.allStructs]

\* analyzeGoFile: the summary of the file and the struct registry it leaves
analyzeGoFile(file, allStructs) ==
    IF ~file.parseOK
    THEN [summary |-> GoFileSummary(file.path), allStructs |-> allStructs]
    ELSE LET s0 == [GoFileSummary(file.path) EXCEPT
                      !.Imports = GoImports(file.decls),
                      !.Variables = GoGlobalVars(file.decls)]
             st == InspectDecls([summary |-> s0, allStructs |-> allStructs], file.decls)
         IN  [summary |-> [st.summary EXCEPT
                             !.Structs = UpdateStructMethods(@, st.allStructs)],
              allStructs |-> st.allStructs]

(***************************************************************************)
(* The cross-reference resolver (findLinkedFunctions).  The function       *)
(* ranges over two Go maps, whose iteration order the language leaves      *)
(* unspecified: ord gives the order of each range, ord.k1 and ord.k5 the   *)
(* attribute keys for the two attribute loops, ord.f4 the registry names   *)
(* for the form-action loop and ord.f5[key] the registry names for the     *)
(* loop run for the hx-* attribute key.                                    *)
(***************************************************************************)
\* regexp ([a-zA-Z0-9_]+)\( , FindStringSubmatch: the first run of word characters
\* that is directly followed by "(" ; "" when there is no match
FirstCallIdent(value) ==
    LET ends == { i \in 2..Len(value) :
                     CharAt(value, i) = "(" /\ IsWordChar(CharAt(value, i - 1)) }
    IN  IF ends = {} THEN ""
        ELSE LET e == CHOOSE i \in ends : \A k \in ends : i <= k
                 b == CHOOSE j \in 1..(e - 1) :
                        /\ \A k \in j..(e - 1) : IsWordChar(CharAt(value, k))
                        /\ (j = 1 \/ ~IsWordChar(CharAt(value, j - 1)))
             IN  SubSeq(value, b, e - 1)

\* rule 1 mutated: the name is linked whether or not it is registered
EventHandlerStep_Unchecked(linked, key, value, allFunctions) ==
    IF HasPrefix(key, "on") /\ Contains(value, "(") /\ FirstCallIdent(value) # ""
    THEN appendIfNotExists(linked, FirstCallIdent(value))
    ELSE linked

\* rule 1, one iteration: an on* attribute whose value holds a call
EventHandlerStep(linked, key, value, allFunctions) ==
    IF HasPrefix(key, "on") /\ Contains(value, "(")
    THEN LET funcName == FirstCallIdent(value)
         IN  IF funcName # "" /\ funcName \in DOMAIN allFunctions
             THEN appendIfNotExists(linked, funcName)
             ELSE linked
    ELSE linked

RECURSIVE EventHandlerLoop(_, _, _, _)
EventHandlerLoop(linked, keys, attrs, allFunctions) ==
    IF keys = <<>> THEN linked
    ELSE EventHandlerLoop(EventHandlerStep(linked, Head(keys), attrs[Head(keys)], allFunctions),
                          Tail(keys), attrs, allFunctions)

\* rules 2 and 3 mutated: the value is linked whether or not it is registered
ExactAttr_Unchecked(linked, attrs, key, allFunctions) ==
    IF key \in DOMAIN attrs THEN appendIfNotExists(linked, attrs[key]) ELSE linked

\* rules 2 and 3: the attribute's value is itself a registered name
ExactAttr(linked, attrs, key, allFunctions) ==
    IF key \in DOMAIN attrs /\ attrs[key] \in DOMAIN allFunctions
    THEN appendIfNotExists(linked, attrs[key])
    ELSE linked

\* rule 4 mutated: any name that starts with the script name passes
ActionMatches_AnyPrefix(funcName, scriptName) ==
    HasPrefix(ToLower(funcName), ToLower(scriptName))

\* rule 4, the test of one registry name against the script name
ActionMatches(funcName, scriptName) ==
    \/ ToLower(funcName) = ToLower(scriptName)
    \/ HasPrefix(ToLower(funcName), ToLower(scriptName) \o "_")

RECURSIVE ActionLoop(_, _, _)
ActionLoop(linked, names, scriptName) ==
    IF names = <<>> THEN linked
    ELSE ActionLoop(IF ActionMatches(Head(names), scriptName)
                    THEN appendIfNotExists(linked, Head(names)) ELSE linked,
                    Tail(names), scriptName)

\* rule 4 applies to the element
ActionApplies(attrs) ==
    /\ "action" \in DOMAIN attrs
    /\ (HasSuffix(attrs["action"], ".php") \/ Contains(attrs["action"], ".php?"))

ScriptName(action) == TrimSuffix(Base(BeforeFirst(action, "?")), ".php")

\* rule 5 mutated: only a name that contains the segment passes
HxMatches_OneWay(funcName, lastPart) ==
    Contains(TrimSuffix(TrimSuffix(TrimSuffix(ToLower(funcName), "handler"),
                                   "endpoint"), "controller"),
             TrimSuffix(TrimSuffix(ToLower(lastPart), ".html"), ".php"))

\* rule 5, the test of one registry name against the last path segment
HxMatches(funcName, lastPart) ==
    LET funcNameLower == TrimSuffix(TrimSuffix(TrimSuffix(ToLower(funcName), "handler"),
                                               "endpoint"), "controller")
        lastPartLower == TrimSuffix(TrimSuffix(ToLower(lastPart), ".html"), ".php")
    IN  Contains(funcNameLower, lastPartLower) \/ Contains(lastPartLower, funcNameLower)

RECURSIVE HxNameLoop(_, _, _)
HxNameLoop(linked, names, lastPart) ==
    IF names = <<>> THEN linked
    ELSE HxNameLoop(IF HxMatches(Head(names), lastPart)
                    THEN appendIfNotExists(linked, Head(names)) ELSE linked,
                    Tail(names), lastPart)

HxApplies(key, value) == HasPrefix(key, "hx-") /\ Contains(value, "/")

RECURSIVE HxLoop(_, _, _, _)
HxLoop(linked, keys, attrs, f5) ==
    IF keys = <<>> THEN linked
    ELSE LET key == Head(keys)
         IN  HxLoop(IF HxApplies(key, attrs[key])
                    THEN HxNameLoop(linked, f5[key], AfterLast(attrs[key], "/"))
                    ELSE linked,
                    Tail(keys), attrs, f5)

\* findLinkedFunctions: the five rules in order
findLinkedFunctions(element, allFunctions, ord) ==
    LET attrs == element.Attributes
        l1 == EventHandlerLoop(<<>>, ord.k1, attrs, allFunctions)
        l2 == ExactAttr(l1, attrs, "data-function", allFunctions)
        l3 == ExactAttr(l2, attrs, "onclick", allFunctions)
        l4 == IF ActionApplies(attrs)
              THEN ActionLoop(l3, ord.f4, ScriptName(attrs["action"]))
              ELSE l3
    IN  HxLoop(l4, ord.k5, attrs, ord.f5)

\* the iteration orders one call of findLinkedFunctions can meet.  A name (or
\* key) that fails its loop's test leaves the list as it is, so every order of
\* a range is represented by the order it gives the names that pass, followed
\* by the others in a fixed order.
RepOrders(S, R) == { p \o SetToSeq(S \ R) : p \in Perms(R) }

MapOrders(element, allFunctions) ==
    LET attrs == element.Attributes
        keys == DOMAIN attrs
        names == DOMAIN allFunctions
        onKeys == { k \in keys : HasPrefix(k, "on") /\ Contains(attrs[k], "(") }
        hxKeys == { k \in keys : HxApplies(k, attrs[k]) }
        m4 == IF ActionApplies(attrs)
              THEN { n \in names : ActionMatches(n, ScriptName(attrs["action"])) }
              ELSE {}
        m5(k) == IF k \in hxKeys
                 THEN { n \in names : HxMatches(n, AfterLast(attrs[k], "/")) }
                 ELSE {}
        F5 == { f \in [keys -> UNION { RepOrders(names, m5(k)) : k \in keys }] :
                   \A k \in keys : f[k] \in RepOrders(names, m5(k)) }
    IN  { [k1 |-> a, f4 |-> b, k5 |-> c, f5 |-> d] :
             a \in RepOrders(keys, onKeys), b \in RepOrders(names, m4),
             c \in RepOrders(keys, hxKeys), d \in F5 }

\* every list findLinkedFunctions can return for the element and the registry
LinkedOutcomes(element, allFunctions) ==
    { findLinkedFunctions(element, allFunctions, ord) : ord \in MapOrders(element, allFunctions) }

(***************************************************************************)
(* The HTML extractor (analyzeHtmlFile, processNode).  An HTML file is the *)
(* node tree html.Parse returns, in document (pre-)order: processNode      *)
(* gives the k-th node of that order the line 1 + k whatever the shape of  *)
(* the tree.  A node is [isElement, attrs], attrs a sequence of [Key, Val] *)
(* with distinct keys.                                                     *)
(***************************************************************************)
\* strings.Fields for space-separated tokens
RECURSIVE Fields(_)
Fields(s) ==
    IF s = "" THEN <<>>
    ELSE IF CharAt(s, 1) = " " THEN Fields(SubSeq(s, 2, Len(s)))
    ELSE LET w == BeforeFirst(s, " ")
         IN  <<w>> \o Fields(SubSeq(s, Len(w) + 1, Len(s)))

\* the loop over n.Attr of processNode
RECURSIVE ElementOfAttrs(_, _)
ElementOfAttrs(element, attrs) ==
    IF attrs = <<>> THEN element
    ELSE LET a == Head(attrs)
             e == IF a.Key = "id" THEN [element EXCEPT !.ID = a.Val]
                  ELSE IF a.Key = "class" THEN [element EXCEPT !.Classes = Fields(a.Val)]
                  ELSE [element EXCEPT !.Attributes = MapPut(@, a.Key, a.Val)]
         IN  ElementOfAttrs(e, Tail(attrs))

\* processNode over the nodes in document order, the document node first (line 1)
RECURSIVE processNode(_, _, _)
processNode(elements, nodes, currentLine) ==
    IF nodes = <<>> THEN elements
    ELSE LET n == Head(nodes)
             element == ElementOfAttrs([ID |-> "", Classes |-> <<>>, Attributes |-> EmptyMap,
                                        Line |-> currentLine, LinkedFunctions |-> <<>>],
                                       n.attrs)
         IN  processNode(IF n.isElement THEN Append(elements, element) ELSE elements,
                         Tail(nodes), currentLine + 1)

\* analyzeHtmlFile mutated: the elements are resolved at once, against the
\* registry as it is when the file is visited
analyzeHtmlFile_ResolveAtOnce(file, allFunctions) ==
    LET els == processNode(<<>>, <<[isElement |-> FALSE, attrs |-> <<>>]>> \o file.nodes, 1)
    IN  [FilePath |-> file.path,
         Elements |-> [j \in 1..Len(els) |->
                         [els[j] EXCEPT !.LinkedFunctions =
                             findLinkedFunctions(els[j], allFunctions,
                                 CHOOSE ord \in MapOrders(els[j], allFunctions) : TRUE)]]]

\* analyzeHtmlFile; the registry it is handed is not read
analyzeHtmlFile(file, allFunctions) ==
    [FilePath |-> file.path,
     Elements |-> processNode(<<>>, <<[isElement |-> FALSE, attrs |-> <<>>]>> \o file.nodes, 1)]

(***************************************************************************)
(* Text positions.  The extractors index the file's text from 0, as Go     *)
(* does: At(s, i) is s[i], and "" when there is no position i;             *)
(* Slice(s, a, b) is s[a:b].                                               *)
(***************************************************************************)
At(s, i) == IF 0 <= i /\ i < Len(s) THEN SubSeq(s, i + 1, i + 1) ELSE ""

Slice(s, a, b) == SubSeq(s, a + 1, b)

\* strings.Index: the first position of sub in s, -1 when there is none
Index(s, sub) ==
    LET hits == { i \in 0..(Len(s) - Len(sub)) : Slice(s, i, i + Len(sub)) = sub }
    IN  IF hits = {} THEN -1 ELSE CHOOSE i \in hits : \A k \in hits : i <= k

\* strings.LastIndex
LastIndex(s, sub) ==
    LET hits == { i \in 0..(Len(s) - Len(sub)) : Slice(s, i, i + Len(sub)) = sub }
    IN  IF hits = {} THEN -1 ELSE CHOOSE i \in hits : \A k \in hits : i >= k

\* strings.Count: the non-overlapping occurrences of sub in s, from the left
RECURSIVE Count(_, _)
Count(s, sub) ==
    LET i == Index(s, sub)
    IN  IF i = -1 THEN 0 ELSE 1 + Count(Slice(s, i + Len(sub), Len(s)), sub)

\* regexp \s
IsSpace(c) == c \in {" ", "\t", "\n", "\r", "\f"}

\* the end of the run of \s characters that starts at i
RECURSIVE SkipSpace(_, _)
SkipSpace(s, i) ==
    IF i < Len(s) /\ IsSpace(At(s, i)) THEN SkipSpace(s, i + 1) ELSE i

\* the end of the run of [a-zA-Z0-9_] characters that starts at i
RECURSIVE SkipWord(_, _)
SkipWord(s, i) ==
    IF i < Len(s) /\ IsWordChar(At(s, i)) THEN SkipWord(s, i + 1) ELSE i

\* the ascending sequence of the members of a finite set of integers
RECURSIVE Ascending(_)
Ascending(S) ==
    IF S = {} THEN <<>>
    ELSE LET m == CHOOSE x \in S : \A y \in S : x <= y
         IN  <<m>> \o Ascending(S \ {m})

countLines(text) == 1 + Count(text, "\n")

\* isWithinString: the parity of the unescaped quotes before pos
isWithinString(content, pos) ==
    LET before == Slice(content, 0, pos)
        singleQuotes == Count(before, "'") - Count(before, "\\'")
        doubleQuotes == Count(before, "\"") - Count(before, "\\\"")
    IN  singleQuotes % 2 = 1 \/ doubleQuotes % 2 = 1

(***************************************************************************)
(* The PHP extractor: block-end location, nested control flow and calls.   *)
(***************************************************************************)
\* the keys of the patterns map of extractPhpControlFlow
PhpControlTypes == {"if", "for", "while", "foreach", "switch"}

\* the regexp <keyword>\s*\( matches at position i of text
KeywordAt(text, i, keyword) ==
    /\ i + Len(keyword) <= Len(text)
    /\ Slice(text, i, i + Len(keyword)) = keyword
    /\ LET j == SkipSpace(text, i + Len(keyword))
       IN  j < Len(text) /\ At(text, j) = "("

\* pattern.FindAllStringIndex(text, -1): the start of every match, ascending
KeywordMatches(text, keyword) ==
    Ascending({ i \in 0..(Len(text) - 1) : KeywordAt(text, i, keyword) })

\* the brace-counting loop mutated: an opening brace inside the block is not
\* counted, so the block ends at the first closing brace
BraceLoop_FirstClose(content, i, braceCount, bodyEnd) ==
    LET closes == { k \in i..(Len(content) - 1) : At(content, k) = "}" }
    IN  IF closes = {}
        THEN [bodyEnd |-> IF i < Len(content) THEN Len(content) - 1 ELSE bodyEnd,
              braceCount |-> braceCount]
        ELSE [bodyEnd |-> CHOOSE k \in closes : \A m \in closes : k <= m, braceCount |-> 0]

\* the brace-counting loop `for i := bodyStart; i < len(content) && braceCount > 0; i++`
\* from its state at index i
RECURSIVE BraceLoop(_, _, _, _)
BraceLoop(content, i, braceCount, bodyEnd) ==
    IF i < Len(content) /\ braceCount > 0
    THEN BraceLoop(content, i + 1,
                   IF At(content, i) = "{" THEN braceCount + 1
                   ELSE IF At(content, i) = "}" THEN braceCount - 1
                   ELSE braceCount,
                   i)
    ELSE [bodyEnd |-> bodyEnd, braceCount |-> braceCount]

\* block-end location from startPos: the opening brace, the body's bounds, the
\* brace balance the loop ended with, whether the candidate has a body to
\* search (found: bodyEnd > bodyStart) or is given up, and the body searched
PhpBlock(content, startPos) ==
    LET openBracePos == Index(Slice(content, startPos, Len(content)), "{")
        bodyStart == startPos + openBracePos + 1
        loop == BraceLoop(content, bodyStart, 1, bodyStart)
    IN  IF openBracePos = -1
        THEN [found |-> FALSE, openBrace |-> -1, bodyStart |-> -1, bodyEnd |-> -1,
              braceCount |-> 1, body |-> ""]
        ELSE [found |-> loop.bodyEnd > bodyStart, openBrace |-> bodyStart - 1,
              bodyStart |-> bodyStart, bodyEnd |-> loop.bodyEnd,
              braceCount |-> loop.braceCount,
              body |-> IF loop.bodyEnd > bodyStart
                       THEN Slice(content, bodyStart, loop.bodyEnd) ELSE ""]

\* the nodes the loop over one pattern's matches in body appends; order is the
\* order in which the ranges over the patterns map visit its keys, the same
\* for every range of a run.  Pos, the node's position in the text, is not a
\* field of ControlFlow: it records where the node was found.
RECURSIVE findNestedPhpControlFlow(_, _, _)
NestedPhpMatches(content, bodyStart, body, controlType, order) ==
    LET matches == KeywordMatches(body, controlType)
        kept == SelectSeq(matches, LAMBDA m : ~isWithinString(content, bodyStart + m))
    IN  [k \in 1..Len(kept) |->
            [Type |-> controlType,
             Line |-> countLines(Slice(content, 0, bodyStart + kept[k])),
             Pos |-> bodyStart + kept[k],
             Children |-> findNestedPhpControlFlow(content, bodyStart + kept[k], order)]]

RECURSIVE NestedPhpLoop(_, _, _, _, _)
NestedPhpLoop(content, bodyStart, body, types, order) ==
    IF types = <<>> THEN <<>>
    ELSE NestedPhpMatches(content, bodyStart, body, Head(types), order)
         \o NestedPhpLoop(content, bodyStart, body, Tail(types), order)

findNestedPhpControlFlow(content, startPos, order) ==
    LET block == PhpBlock(content, startPos)
    IN  IF ~block.found THEN <<>>
        ELSE NestedPhpLoop(content, block.bodyStart, block.body, order, order)

\* extractPhpControlFlow: one root per match of a pattern in the whole text
PhpRootMatches(content, controlType, order) ==
    LET matches == KeywordMatches(content, controlType)
        kept == SelectSeq(matches, LAMBDA m : ~isWithinString(content, m))
    IN  [k \in 1..Len(kept) |->
            [Type |-> controlType,
             Line |-> countLines(Slice(content, 0, kept[k])),
             Pos |-> kept[k],
             Children |-> findNestedPhpControlFlow(content, kept[k], order)]]

RECURSIVE PhpRootLoop(_, _, _)
PhpRootLoop(content, types, order) ==
    IF types = <<>> THEN <<>>
    ELSE PhpRootMatches(content, Head(types), order) \o PhpRootLoop(content, Tail(types), order)

extractPhpControlFlow(content, order) == PhpRootLoop(content, order, order)

\* the regexp (\$\w+->)?(\w+)\s*\( , FindAllStringSubmatch: the names (group 2)
\* of the matches in text from position i on
RECURSIVE CallNames(_, _)
CallNames(text, i) ==
    IF i >= Len(text) THEN <<>>
    ELSE IF IsWordChar(At(text, i))
    THEN LET e == SkipWord(text, i)
             j == SkipSpace(text, e)
         IN  IF j < Len(text) /\ At(text, j) = "("
             THEN <<Slice(text, i, e)>> \o CallNames(text, j + 1)
             ELSE CallNames(text, e)
    ELSE CallNames(text, i + 1)

PhpConstructs == {"if", "for", "while", "foreach", "switch"}

RECURSIVE DedupCalls(_, _)
DedupCalls(calls, names) ==
    IF names = <<>> THEN calls
    ELSE DedupCalls(IF Head(names) \in PhpConstructs THEN calls
                    ELSE appendIfNotExists(calls, Head(names)),
                    Tail(names))

\* extractPhpFunctionCalls
extractPhpFunctionCalls(content, funcStartPos) ==
    LET block == PhpBlock(content, funcStartPos)
    IN  IF ~block.found THEN <<>>
        ELSE DedupCalls(<<>>, CallNames(block.body, 0))

\* the regexp function\s+(\w+)\s*\((.*?)\) matches at position i of content
FunctionAt(content, i) ==
    /\ i + 8 <= Len(content)
    /\ Slice(content, i, i + 8) = "function"
    /\ LET a == SkipSpace(content, i + 8)
           b == SkipWord(content, a)
           c == SkipSpace(content, b)
       IN  /\ a > i + 8
           /\ b > a
           /\ c < Len(content) /\ At(content, c) = "("
           /\ \E d \in (c + 1)..(Len(content) - 1) :
                 /\ At(content, d) = ")"
                 /\ \A k \in (c + 1)..(d - 1) : At(content, k) # "\n"

FunctionMatches(content) ==
    Ascending({ i \in 0..(Len(content) - 1) : FunctionAt(content, i) })

(***************************************************************************)
(* The Python extractor: lines, indentation, the scope predicates and the  *)
(* nested control-flow search.                                             *)
(***************************************************************************)
\* strings.Split(text, "\n")
RECURSIVE SplitLines(_)
SplitLines(text) ==
    LET i == Index(text, "\n")
    IN  IF i = -1 THEN <<text>>
        ELSE <<Slice(text, 0, i)>> \o SplitLines(Slice(text, i + 1, Len(text)))

\* len(line) - len(strings.TrimLeft(line, " \t"))
RECURSIVE Indent(_)
Indent(line) ==
    IF Len(line) > 0 /\ At(line, 0) \in {" ", "\t"}
    THEN 1 + Indent(Slice(line, 1, Len(line)))
    ELSE 0

\* strings.TrimSpace
RECURSIVE TrimSpace(_)
TrimSpace(s) ==
    IF Len(s) > 0 /\ IsSpace(At(s, 0)) THEN TrimSpace(Slice(s, 1, Len(s)))
    ELSE IF Len(s) > 0 /\ IsSpace(At(s, Len(s) - 1)) THEN TrimSpace(Slice(s, 0, Len(s) - 1))
    ELSE s

\* strings.Split(s, sep) for a separator of one character
RECURSIVE Split(_, _)
Split(s, sep) ==
    LET i == Index(s, sep)
    IN  IF i = -1 THEN <<s>>
        ELSE <<Slice(s, 0, i)>> \o Split(Slice(s, i + 1, Len(s)), sep)

\* strings.SplitN(s, sep, 2) for a separator of one character
SplitN2(s, sep) ==
    LET i == Index(s, sep)
    IN  IF i = -1 THEN <<s>> ELSE <<Slice(s, 0, i), Slice(s, i + 1, Len(s))>>

\* the positions at which (?m)^ matches
LineStarts(text) ==
    { p \in 0..Len(text) : p = 0 \/ At(text, p - 1) = "\n" }

\* strings.LastIndex(content[:pos], "\n") + 1, or 0 when there is no newline
LineStartOf(content, pos) == LastIndex(Slice(content, 0, pos), "\n") + 1

\* the keys of the patterns map of extractPythonControlFlow
PyControlTypes == {"if", "for", "while", "try", "with"}

\* the end of the match of (?m)^(\s*)<kw>\s+.+: (for try: (?m)^(\s*)try\s*:)
\* that starts at the line start p, -1 when there is none.  The leading \s*
\* runs over blank lines too, so q is the first non-space position from p.
PyControlEnd(text, p, kw) ==
    LET q == SkipSpace(text, p)
        k == q + Len(kw)
    IN  IF ~(k <= Len(text) /\ Slice(text, q, k) = kw) THEN -1
        ELSE IF kw = "try"
        THEN LET c == SkipSpace(text, k)
             IN  IF c < Len(text) /\ At(text, c) = ":" THEN c + 1 ELSE -1
        ELSE LET colons == { c \in (k + 2)..(Len(text) - 1) :
                               /\ At(text, c) = ":"
                               /\ \E t \in (k + 1)..(c - 1) :
                                     /\ \A s \in k..(t - 1) : IsSpace(At(text, s))
                                     /\ \A s \in t..(c - 1) : At(text, s) # "\n" }
             IN  IF colons = {} THEN -1
                 ELSE LET first == CHOOSE c \in colons : \A d \in colons : c <= d
                          \* .+ is greedy: the match runs to the last colon of that line
                          same == { c \in colons :
                                      \A s \in first..c : At(text, s) # "\n" }
                      IN  (CHOOSE c \in same : \A d \in same : c >= d) + 1

\* FindAllStringSubmatchIndex: the matches [start, indentEnd, end] in text,
\* leftmost first and not overlapping, among the line starts from position from on
RECURSIVE PyControlMatches(_, _, _)
PyControlMatches(text, kw, from) ==
    LET starts == { p \in LineStarts(text) : p >= from /\ PyControlEnd(text, p, kw) # -1 }
    IN  IF starts = {} THEN <<>>
        ELSE LET p == CHOOSE x \in starts : \A y \in starts : x <= y
                 e == PyControlEnd(text, p, kw)
             IN  <<[start |-> p, indentEnd |-> SkipSpace(text, p), end |-> e]>>
                 \o PyControlMatches(text, kw, e)

\* the end of the parent block: the start of the first non-blank line after
\* the first whose indentation is not deeper than parentIndent
RECURSIVE PyBlockEndLoop(_, _, _, _, _)
PyBlockEndLoop(lines, i, linePos, parentIndent, endPos) ==
    IF i > Len(lines) THEN endPos
    ELSE IF TrimSpace(lines[i]) = ""
    THEN PyBlockEndLoop(lines, i + 1, linePos + Len(lines[i]) + 1, parentIndent, endPos)
    ELSE IF Indent(lines[i]) <= parentIndent THEN linePos
    ELSE PyBlockEndLoop(lines, i + 1, linePos + Len(lines[i]) + 1, parentIndent, endPos)

PyBlockEnd(content, startPos, parentIndent) ==
    LET lines == SplitLines(Slice(content, startPos, Len(content)))
        endPos == IF Len(lines) > 1
                  THEN PyBlockEndLoop(lines, 2, startPos + Len(lines[1]) + 1,
                                      parentIndent, Len(content))
                  ELSE Len(content)
    IN  IF endPos > Len(content) THEN Len(content) ELSE endPos

\* the nodes the loop over one pattern's matches in blockContent appends
RECURSIVE findNestedPythonControlFlow(_, _, _, _)
\* the loop over one pattern's matches mutated: the match the call started
\* from is kept as a node of its own block
NestedPyMatches_KeepsOwnMatch(content, startPos, blockContent, parentIndent, controlType, order) ==
    LET matches == PyControlMatches(blockContent, controlType, 0)
        kept == SelectSeq(matches, LAMBDA m : m.indentEnd - m.start >= parentIndent)
    IN  [k \in 1..Len(kept) |->
            [Type |-> controlType,
             Line |-> countLines(Slice(content, 0, startPos + kept[k].start)),
             Pos |-> startPos + kept[k].start,
             Children |-> IF kept[k].start = 0 THEN <<>>
                          ELSE findNestedPythonControlFlow(content, startPos + kept[k].start,
                                                           kept[k].indentEnd - kept[k].start,
                                                           order)]]

NestedPyMatches(content, startPos, blockContent, parentIndent, controlType, order) ==
    LET matches == PyControlMatches(blockContent, controlType, 0)
        kept == SelectSeq(matches, LAMBDA m : m.indentEnd - m.start > parentIndent)
    IN  [k \in 1..Len(kept) |->
            [Type |-> controlType,
             Line |-> countLines(Slice(content, 0, startPos + kept[k].start)),
             Pos |-> startPos + kept[k].start,
             Children |-> findNestedPythonControlFlow(content, startPos + kept[k].start,
                                                      kept[k].indentEnd - kept[k].start,
                                                      order)]]

RECURSIVE NestedPyLoop(_, _, _, _, _, _)
NestedPyLoop(content, startPos, blockContent, parentIndent, types, order) ==
    IF types = <<>> THEN <<>>
    ELSE NestedPyMatches(content, startPos, blockContent, parentIndent, Head(types), order)
         \o NestedPyLoop(content, startPos, blockContent, parentIndent, Tail(types), order)

findNestedPythonControlFlow(content, startPos, parentIndent, order) ==
    LET endPos == PyBlockEnd(content, startPos, parentIndent)
    IN  IF startPos >= Len(content) \/ startPos > endPos THEN <<>>
        ELSE NestedPyLoop(content, startPos, Slice(content, startPos, endPos),
                          parentIndent, order, order)

\* extractPythonControlFlow: one root per match of a pattern in the whole text
PyRootMatches(content, controlType, order) ==
    LET matches == PyControlMatches(content, controlType, 0)
    IN  [k \in 1..Len(matches) |->
            [Type |-> controlType,
             Line |-> countLines(Slice(content, 0, matches[k].start)),
             Pos |-> matches[k].start,
             Children |-> findNestedPythonControlFlow(content, matches[k].start,
                                                      matches[k].indentEnd - matches[k].start,
                                                      order)]]

RECURSIVE PyRootLoop(_, _, _)
PyRootLoop(content, types, order) ==
    IF types = <<>> THEN <<>>
    ELSE PyRootMatches(content, Head(types), order) \o PyRootLoop(content, Tail(types), order)

extractPythonControlFlow(content, order) == PyRootLoop(content, order, order)

\* the backward scan of isPythonWithinFunction from line i of lines
RECURSIVE WithinFunctionScan(_, _, _)
WithinFunctionScan(lines, i, currentIndent) ==
    IF i < 1 THEN FALSE
    ELSE LET line == lines[i]
             trimmedLine == TrimSpace(line)
             lineIndent == Indent(line)
         IN  IF trimmedLine = "" THEN WithinFunctionScan(lines, i - 1, currentIndent)
             ELSE IF lineIndent <= currentIndent /\ HasPrefix(trimmedLine, "def") THEN TRUE
             ELSE IF lineIndent < currentIndent /\ HasSuffix(trimmedLine, ":") THEN FALSE
             ELSE WithinFunctionScan(lines, i - 1, currentIndent)

\* isPythonWithinFunction
isPythonWithinFunction(content, pos) ==
    LET lineStart == LineStartOf(content, pos)
        currentIndent == Indent(Slice(content, lineStart, pos))
        lines == SplitLines(Slice(content, 0, lineStart))
    IN  WithinFunctionScan(lines, Len(lines), currentIndent)

(***************************************************************************)
(* analyzePythonFile: classes, their methods, top-level functions,         *)
(* control flow and global variables.  A slice expression whose bounds are *)
(* out of range aborts the run: the result then has panicked = TRUE.       *)
(* Imports, decorators, arguments, calls and the type hints of class       *)
(* fields are not part of the model.                                       *)
(***************************************************************************)
\* FindAll...Index keeps, leftmost first, the matches that start at or after
\* the end of the match kept before; ms is in ascending order of start
RECURSIVE NonOverlapping(_, _)
NonOverlapping(ms, from) ==
    IF ms = <<>> THEN <<>>
    ELSE IF Head(ms).start < from THEN NonOverlapping(Tail(ms), from)
    ELSE <<Head(ms)>> \o NonOverlapping(Tail(ms), Head(ms).end)

\* the match of def\s+(\w+)\s*\(\s*(.*?)\s*\): whose "def" is at position q
\* of text and whose match starts at position p; end = -1 when there is none
DefMatch(text, p, q) ==
    LET a == SkipSpace(text, q + 3)
        b == SkipWord(text, a)
        c == SkipSpace(text, b)
        d == SkipSpace(text, c + 1)
        \* (.*?) is lazy: the first position from which \s*\): follows
        stops == { e \in d..Len(text) :
                     /\ \A k \in d..(e - 1) : At(text, k) # "\n"
                     /\ LET f == SkipSpace(text, e)
                        IN  At(text, f) = ")" /\ At(text, f + 1) = ":" }
    IN  IF /\ q + 3 <= Len(text) /\ Slice(text, q, q + 3) = "def"
           /\ a > q + 3 /\ b > a /\ At(text, c) = "(" /\ stops # {}
        THEN LET e == CHOOSE x \in stops : \A y \in stops : x <= y
             IN  [start |-> p, nameStart |-> a, nameEnd |-> b,
                  argsStart |-> d, argsEnd |-> e,
                  end |-> SkipSpace(text, e) + 2]
        ELSE [start |-> p, nameStart |-> -1, nameEnd |-> -1,
              argsStart |-> -1, argsEnd |-> -1, end |-> -1]

\* funcRegex (?m)^def\s+(\w+)\s*\(\s*(.*?)\s*\): on text
FuncMatches(text) ==
    LET starts == Ascending({ p \in LineStarts(text) : DefMatch(text, p, p).end # -1 })
    IN  NonOverlapping([k \in 1..Len(starts) |-> DefMatch(text, starts[k], starts[k])], 0)

\* methodRegex (?m)^\s+def\s+(\w+)\s*\(\s*(.*?)\s*\): on text
MethodMatches(text) ==
    LET starts == Ascending({ p \in LineStarts(text) :
                                /\ SkipSpace(text, p) > p
                                /\ DefMatch(text, p, SkipSpace(text, p)).end # -1 })
    IN  NonOverlapping([k \in 1..Len(starts) |->
                           DefMatch(text, starts[k], SkipSpace(text, starts[k]))], 0)

\* the match of (?m)^class\s+(\w+)(?:\s*\(\s*([^)]*)\s*\))?: at line start p
ClassMatch(text, p) ==
    LET a == SkipSpace(text, p + 5)
        b == SkipWord(text, a)
        c == SkipSpace(text, b)
        closes == { r \in (c + 1)..(Len(text) - 1) : At(text, r) = ")" }
        r == IF closes = {} THEN -1 ELSE CHOOSE x \in closes : \A y \in closes : x <= y
        none == [start |-> p, nameStart |-> -1, nameEnd |-> -1, end |-> -1]
    IN  IF ~(p + 5 <= Len(text) /\ Slice(text, p, p + 5) = "class" /\ a > p + 5 /\ b > a)
        THEN none
        ELSE IF At(text, c) = "(" /\ r # -1 /\ At(text, r + 1) = ":"
        THEN [start |-> p, nameStart |-> a, nameEnd |-> b, end |-> r + 2]
        ELSE IF At(text, b) = ":"
        THEN [start |-> p, nameStart |-> a, nameEnd |-> b, end |-> b + 1]
        ELSE none

ClassMatches(text) ==
    LET starts == Ascending({ p \in LineStarts(text) : ClassMatch(text, p).end # -1 })
    IN  NonOverlapping([k \in 1..Len(starts) |-> ClassMatch(text, starts[k])], 0)

\* globalVarRegex (?m)^(\w+)\s*= on text
GlobalVarMatches(text) ==
    LET starts == Ascending({ p \in LineStarts(text) :
                                /\ SkipWord(text, p) > p
                                /\ At(text, SkipSpace(text, SkipWord(text, p))) = "=" })
    IN  NonOverlapping([k \in 1..Len(starts) |->
                           [start |-> starts[k], nameStart |-> starts[k],
                            nameEnd |-> SkipWord(text, starts[k]),
                            end |-> SkipSpace(text, SkipWord(text, starts[k])) + 1]], 0)

\* the bound of the look-back of extractPythonReturnType
ReturnLookBack == 20

\* returnTypeRegex ->\s*([^:]+) on searchText: the trimmed group, "" when
\* the pattern does not match
ReturnHint(searchText) ==
    LET arrows == { i \in 0..(Len(searchText) - 3) :
                      Slice(searchText, i, i + 2) = "->" /\ At(searchText, i + 2) # ":" }
    IN  IF arrows = {} THEN ""
        ELSE LET i == CHOOSE x \in arrows : \A y \in arrows : x <= y
                 s == SkipSpace(searchText, i + 2)
                 rest == Slice(searchText, s, Len(searchText))
                 colon == Index(rest, ":")
             IN  TrimSpace(IF colon = -1 THEN rest ELSE Slice(rest, 0, colon))

\* extractPythonReturnType: content[funcEnd-20 : funcEnd+endOfLine] is out of
\* range when funcEnd < 20
extractPythonReturnType(content, funcEnd) ==
    LET nl == Index(Slice(content, funcEnd, Len(content)), "\n")
        endOfLine == IF nl = -1 THEN Len(content) - funcEnd ELSE nl
    IN  IF funcEnd - ReturnLookBack < 0
        THEN [panicked |-> TRUE, value |-> ""]
        ELSE [panicked |-> FALSE,
              value |-> ReturnHint(Slice(content, funcEnd - ReturnLookBack,
                                         funcEnd + endOfLine))]

Returns(hint) == IF hint = "" THEN <<>> ELSE <<hint>>

\* isPythonMethod
isPythonMethod(content, pos) ==
    Indent(Slice(content, LineStartOf(content, pos), pos)) > 0

\* the backward scan of isPythonWithinClass from line i of lines;
\* strings.TrimSpace(line)[:5] is out of range on a line shorter than five
RECURSIVE WithinClassScan(_, _, _)
WithinClassScan(lines, i, currentIndent) ==
    IF i < 1 THEN [panicked |-> FALSE, value |-> FALSE]
    ELSE LET trimmedLine == TrimSpace(lines[i])
         IN  IF trimmedLine = "" \/ ~(Indent(lines[i]) < currentIndent)
             THEN WithinClassScan(lines, i - 1, currentIndent)
             ELSE IF Len(trimmedLine) < 5 THEN [panicked |-> TRUE, value |-> FALSE]
             ELSE IF Slice(trimmedLine, 0, 5) = "class"
             THEN [panicked |-> FALSE, value |-> TRUE]
             ELSE IF HasSuffix(trimmedLine, ":") THEN [panicked |-> FALSE, value |-> FALSE]
             ELSE WithinClassScan(lines, i - 1, currentIndent)

\* isPythonWithinClass
isPythonWithinClass(content, pos) ==
    LET lineStart == LineStartOf(content, pos)
        lines == SplitLines(Slice(content, 0, lineStart))
    IN  WithinClassScan(lines, Len(lines), Indent(Slice(content, lineStart, pos)))

\* the loop of parsePythonFunctionArgs over the pieces between commas
RECURSIVE PyArgLoop(_, _, _)
PyArgLoop(argsList, lineNumber, args) ==
    IF argsList = <<>> THEN args
    ELSE LET arg == TrimSpace(Head(argsList))
             parts == SplitN2(arg, "=")
             paramStr == TrimSpace(parts[1])
             typeHintParts == SplitN2(paramStr, ":")
             paramName == TrimSpace(typeHintParts[1])
             paramType == IF Len(typeHintParts) > 1 THEN TrimSpace(typeHintParts[2])
                          ELSE "Any"
         IN  IF arg = "" \/ HasPrefix(paramName, "*")
             THEN PyArgLoop(Tail(argsList), lineNumber, args)
             ELSE PyArgLoop(Tail(argsList), lineNumber,
                            Append(args, [Name |-> paramName, Type |-> paramType,
                                          Scope |-> "parameter", Line |-> lineNumber]))

parsePythonFunctionArgs(argsStr, lineNumber) ==
    IF argsStr = "" THEN <<>> ELSE PyArgLoop(Split(argsStr, ","), lineNumber, <<>>)

\* the number of characters before a definition that extractPythonDecorators
\* searches
DecoratorLookBack == 200

\* the matches of @(\w+)(?:\(.*?\))? in searchText from position i on: the
\* names after the markers
RECURSIVE DecoratorScan(_, _)
DecoratorScan(searchText, i) ==
    IF i >= Len(searchText) THEN <<>>
    ELSE LET b == SkipWord(searchText, i + 1)
             rest == Slice(searchText, b, Len(searchText))
             close == Index(rest, ")")
             nl == Index(rest, "\n")
             end == IF At(searchText, b) = "(" /\ close # -1 /\ (nl = -1 \/ close < nl)
                    THEN b + close + 1 ELSE b
         IN  IF At(searchText, i) = "@" /\ b > i + 1
             THEN <<Slice(searchText, i + 1, b)>> \o DecoratorScan(searchText, end)
             ELSE DecoratorScan(searchText, i + 1)

\* extractPythonDecorators: every decorator marker in the window before
\* funcPos
extractPythonDecorators(content, funcPos) ==
    LET searchStart == IF funcPos > DecoratorLookBack THEN funcPos - DecoratorLookBack
                       ELSE 0
    IN  DecoratorScan(Slice(content, searchStart, funcPos), 0)

\* the Args of a method: a leading self, or cls for a class method, is
\* dropped unless the method counts as static
MethodArgs(args, decorators) ==
    LET isStatic == \E k \in 1..Len(decorators) : decorators[k] = "staticmethod"
        isClassMethod == \E k \in 1..Len(decorators) : decorators[k] = "classmethod"
    IN  IF args = <<>> THEN args
        ELSE IF isStatic THEN args
        ELSE IF isClassMethod
        THEN IF args[1].Name = "cls" THEN Tail(args) ELSE args
        ELSE IF args[1].Name = "self" THEN Tail(args) ELSE args

\* extractPythonClassMethods: the methods found from classBodyStart on
RECURSIVE PyMethodLoop(_, _, _, _, _)
PyMethodLoop(content, classBodyStart, className, ms, methods) ==
    IF ms = <<>> THEN [panicked |-> FALSE, methods |-> methods]
    ELSE LET m == Head(ms)
             hint == extractPythonReturnType(content, classBodyStart + m.end)
         IN  IF hint.panicked THEN [panicked |-> TRUE, methods |-> methods]
             ELSE PyMethodLoop(content, classBodyStart, className, Tail(ms),
                     Append(methods,
                            [Name |-> Slice(content, classBodyStart + m.nameStart,
                                            classBodyStart + m.nameEnd),
                             Receiver |-> className,
                             Line |-> countLines(Slice(content, 0, classBodyStart + m.start)),
                             Args |-> MethodArgs(
                                 parsePythonFunctionArgs(
                                     Slice(content, classBodyStart + m.argsStart,
                                           classBodyStart + m.argsEnd),
                                     countLines(Slice(content, 0, classBodyStart + m.start))),
                                 extractPythonDecorators(content, classBodyStart + m.start)),
                             Pos |-> classBodyStart + m.start,
                             Returns |-> Returns(hint.value)]))

extractPythonClassMethods(content, classBodyStart, className) ==
    PyMethodLoop(content, classBodyStart, className,
                 MethodMatches(Slice(content, classBodyStart, Len(content))), <<>>)

\* isPythonWithinMethod: within a function and within a class
isPythonWithinMethod(content, pos) ==
    IF ~isPythonWithinFunction(content, pos) THEN [panicked |-> FALSE, value |-> FALSE]
    ELSE isPythonWithinClass(content, pos)

\* fieldRegex (?m)^\s+(\w+)\s*= on text; \s+ may run over line ends
FieldMatch(text, p) ==
    LET a == SkipSpace(text, p)
        b == SkipWord(text, a)
        c == SkipSpace(text, b)
    IN  IF a > p /\ b > a /\ At(text, c) = "="
        THEN [start |-> p, nameStart |-> a, nameEnd |-> b, end |-> c + 1]
        ELSE [start |-> p, nameStart |-> -1, nameEnd |-> -1, end |-> -1]

FieldMatches(text) ==
    LET starts == Ascending({ p \in LineStarts(text) : FieldMatch(text, p).end # -1 })
    IN  NonOverlapping([k \in 1..Len(starts) |-> FieldMatch(text, starts[k])], 0)

\* extractPythonClassFields: the fields found from classBodyStart on.  Pos,
\* the position of the field's name in the text, is not a field of Variable;
\* the type hint of a field is left out.
RECURSIVE PyFieldLoop(_, _, _, _)
PyFieldLoop(content, classBodyStart, ms, fields) ==
    IF ms = <<>> THEN [panicked |-> FALSE, fields |-> fields]
    ELSE LET m == Head(ms)
             startPos == classBodyStart + m.start
             inMethod == isPythonWithinMethod(content, startPos)
         IN  IF inMethod.panicked THEN [panicked |-> TRUE, fields |-> fields]
             ELSE IF inMethod.value
             THEN PyFieldLoop(content, classBodyStart, Tail(ms), fields)
             ELSE PyFieldLoop(content, classBodyStart, Tail(ms),
                     Append(fields,
                            [Name |-> Slice(content, classBodyStart + m.nameStart,
                                            classBodyStart + m.nameEnd),
                             Scope |-> "class",
                             Line |-> countLines(Slice(content, 0, startPos)),
                             Pos |-> classBodyStart + m.nameStart]))

extractPythonClassFields(content, classBodyStart) ==
    PyFieldLoop(content, classBodyStart,
                FieldMatches(Slice(content, classBodyStart, Len(content))), <<>>)

\* the loop over classMatches; content[classBodyStart:] is out of range when
\* the class header ends the text
RECURSIVE PyClassLoop(_, _, _)
PyClassLoop(content, ms, classes) ==
    IF ms = <<>> THEN [panicked |-> FALSE, classes |-> classes]
    ELSE LET m == Head(ms)
             className == Slice(content, m.nameStart, m.nameEnd)
             classBodyStart == m.end + 1
             f == extractPythonClassFields(content, classBodyStart)
             r == extractPythonClassMethods(content, classBodyStart, className)
         IN  IF classBodyStart > Len(content) \/ f.panicked \/ r.panicked
             THEN [panicked |-> TRUE, classes |-> classes]
             ELSE PyClassLoop(content, Tail(ms),
                     Append(classes, [Name |-> className, Fields |-> f.fields,
                                      Methods |-> r.methods,
                                      Line |-> countLines(Slice(content, 0, m.start)),
                                      Pos |-> m.start]))

\* the loop over funcMatches
RECURSIVE PyFuncLoop(_, _, _)
PyFuncLoop(content, ms, functions) ==
    IF ms = <<>> THEN [panicked |-> FALSE, functions |-> functions]
    ELSE LET m == Head(ms)
             hint == extractPythonReturnType(content, m.end)
         IN  IF isPythonMethod(content, m.start)
             THEN PyFuncLoop(content, Tail(ms), functions)
             ELSE IF hint.panicked THEN [panicked |-> TRUE, functions |-> functions]
             ELSE PyFuncLoop(content, Tail(ms),
                     Append(functions,
                            [Name |-> Slice(content, m.nameStart, m.nameEnd),
                             Receiver |-> "",
                             Line |-> countLines(Slice(content, 0, m.start)),
                             Args |-> parsePythonFunctionArgs(
                                          Slice(content, m.argsStart, m.argsEnd),
                                          countLines(Slice(content, 0, m.start))),
                             Returns |-> Returns(hint.value)]))

\* the loop over globalVarMatches
RECURSIVE PyGlobalVarLoop(_, _, _)
PyGlobalVarLoop(content, ms, variables) ==
    IF ms = <<>> THEN [panicked |-> FALSE, variables |-> variables]
    ELSE LET m == Head(ms)
             varName == Slice(content, m.nameStart, m.nameEnd)
             inClass == isPythonWithinClass(content, m.start)
         IN  IF isPythonWithinFunction(content, m.start)
             THEN PyGlobalVarLoop(content, Tail(ms), variables)
             ELSE IF inClass.panicked THEN [panicked |-> TRUE, variables |-> variables]
             ELSE IF inClass.value \/ varName \in {"import", "from"}
             THEN PyGlobalVarLoop(content, Tail(ms), variables)
             ELSE PyGlobalVarLoop(content, Tail(ms),
                     Append(variables,
                            [Name |-> varName, Scope |-> "global",
                             Line |-> countLines(Slice(content, 0, m.start))]))

EmptyPythonSummary ==
    [panicked |-> FALSE, Classes |-> <<>>, Functions |-> <<>>, ControlFlows |-> <<>>,
     Variables |-> <<>>]

\* analyzePythonFile on the text of the file; order is the order in which the
\* ranges over the patterns map of the control-flow search visit its keys
analyzePythonFile(content, order) ==
    LET classes == PyClassLoop(content, ClassMatches(content), <<>>)
        functions == PyFuncLoop(content, FuncMatches(content), <<>>)
        variables == PyGlobalVarLoop(content, GlobalVarMatches(content), <<>>)
    IN  IF classes.panicked \/ functions.panicked \/ variables.panicked
        THEN [EmptyPythonSummary EXCEPT !.panicked = TRUE]
        ELSE [panicked |-> FALSE, Classes |-> classes.classes,
              Functions |-> functions.functions,
              ControlFlows |-> extractPythonControlFlow(content, order),
              Variables |-> variables.variables]

(***************************************************************************)
(* analyzePhpFile: classes with their properties and methods, free         *)
(* functions, control flow and global variables.  Includes, and the        *)
(* extends / implements clauses of a class header, are not part of the     *)
(* model.                                                                  *)
(***************************************************************************)
\* the literal word, letter case ignored ((?i)), is at position i of text
WordAt(text, i, word) ==
    i + Len(word) <= Len(text) /\ ToLower(Slice(text, i, i + Len(word))) = word

\* the length of the match of (?i)(public|protected|private) at position i,
\* 0 when there is none
VisibilityAt(text, i) ==
    IF WordAt(text, i, "public") THEN 6
    ELSE IF WordAt(text, i, "protected") THEN 9
    ELSE IF WordAt(text, i, "private") THEN 7
    ELSE 0

NoMatch == [start |-> -1, nameStart |-> -1, nameEnd |-> -1, argsStart |-> -1,
            argsEnd |-> -1, end |-> -1]

\* the match of function\s+(\w+)\s*\((.*?)\) whose "function" is at position
\* q of text and whose match starts at position p
PhpFunctionMatch(text, p, q) ==
    LET a == SkipSpace(text, q + 8)
        b == SkipWord(text, a)
        c == SkipSpace(text, b)
        closes == { d \in (c + 1)..(Len(text) - 1) :
                      /\ At(text, d) = ")"
                      /\ \A k \in (c + 1)..(d - 1) : At(text, k) # "\n" }
    IN  IF a > q + 8 /\ b > a /\ At(text, c) = "(" /\ closes # {}
        THEN LET d == CHOOSE x \in closes : \A y \in closes : x <= y
             IN  [start |-> p, nameStart |-> a, nameEnd |-> b, argsStart |-> c + 1,
                  argsEnd |-> d, end |-> d + 1]
        ELSE NoMatch

\* functionRegex function\s+(\w+)\s*\((.*?)\) on text
PhpFunctionMatches(text) ==
    LET starts == Ascending({ p \in 0..(Len(text) - 1) :
                                /\ p + 8 <= Len(text)
                                /\ Slice(text, p, p + 8) = "function"
                                /\ PhpFunctionMatch(text, p, p).end # -1 })
    IN  NonOverlapping([k \in 1..Len(starts) |->
                           PhpFunctionMatch(text, starts[k], starts[k])], 0)

\* the match of (?i)(public|protected|private)?\s*function\s+(\w+)\s*\((.*?)\)
\* that starts at position p: with the visibility word when one is at p and
\* the rest follows it, otherwise without
PhpMethodMatch(text, p) ==
    LET v == VisibilityAt(text, p)
        q1 == SkipSpace(text, p + v)
        q0 == SkipSpace(text, p)
    IN  IF v > 0 /\ WordAt(text, q1, "function") /\ PhpFunctionMatch(text, p, q1).end # -1
        THEN PhpFunctionMatch(text, p, q1)
        ELSE IF WordAt(text, q0, "function") THEN PhpFunctionMatch(text, p, q0)
        ELSE NoMatch

PhpMethodMatches(text) ==
    LET starts == Ascending({ p \in 0..(Len(text) - 1) : PhpMethodMatch(text, p).end # -1 })
    IN  NonOverlapping([k \in 1..Len(starts) |-> PhpMethodMatch(text, starts[k])], 0)

\* classRegex (?i)class\s+(\w+) on text
PhpClassMatch(text, p) ==
    LET a == SkipSpace(text, p + 5)
        b == SkipWord(text, a)
    IN  IF WordAt(text, p, "class") /\ a > p + 5 /\ b > a
        THEN [NoMatch EXCEPT !.start = p, !.nameStart = a, !.nameEnd = b, !.end = b]
        ELSE NoMatch

PhpClassMatches(text) ==
    LET starts == Ascending({ p \in 0..(Len(text) - 1) : PhpClassMatch(text, p).end # -1 })
    IN  NonOverlapping([k \in 1..Len(starts) |-> PhpClassMatch(text, starts[k])], 0)

\* propertyRegex (?i)(public|protected|private)\s+(\$\w+) on text; args is
\* the visibility word
PhpPropertyMatch(text, p) ==
    LET v == VisibilityAt(text, p)
        a == SkipSpace(text, p + v)
        b == SkipWord(text, a + 1)
    IN  IF v > 0 /\ a > p + v /\ At(text, a) = "$" /\ b > a + 1
        THEN [start |-> p, nameStart |-> a, nameEnd |-> b, argsStart |-> p,
              argsEnd |-> p + v, end |-> b]
        ELSE NoMatch

PhpPropertyMatches(text) ==
    LET starts == Ascending({ p \in 0..(Len(text) - 1) : PhpPropertyMatch(text, p).end # -1 })
    IN  NonOverlapping([k \in 1..Len(starts) |-> PhpPropertyMatch(text, starts[k])], 0)

\* globalVarRegex \$(\w+)\s*= on text
PhpVarMatch(text, p) ==
    LET b == SkipWord(text, p + 1)
        c == SkipSpace(text, b)
    IN  IF At(text, p) = "$" /\ b > p + 1 /\ At(text, c) = "="
        THEN [NoMatch EXCEPT !.start = p, !.nameStart = p + 1, !.nameEnd = b, !.end = c + 1]
        ELSE NoMatch

PhpVarMatches(text) ==
    LET starts == Ascending({ p \in 0..(Len(text) - 1) : PhpVarMatch(text, p).end # -1 })
    IN  NonOverlapping([k \in 1..Len(starts) |-> PhpVarMatch(text, starts[k])], 0)

\* more opening than closing braces before pos
isWithinFunction(content, pos) ==
    Count(Slice(content, 0, pos), "{") > Count(Slice(content, 0, pos), "}")

\* after the first opening brace that follows the last occurrence of word
\* before pos, at least as many braces were opened as were closed
WithinBraces(content, pos, word) ==
    LET last == LastIndex(Slice(content, 0, pos), word)
        open == IF last = -1 THEN -1 ELSE Index(Slice(content, last, pos), "{")
        part == Slice(content, last + open + 1, pos)
    IN  /\ last # -1
        /\ open # -1
        /\ Count(part, "{") >= Count(part, "}")

isWithinClass_Never(content, pos) == FALSE

isWithinClass(content, pos) == WithinBraces(content, pos, "class ")

isWithinMethod(content, pos) == WithinBraces(content, pos, "function ")

RECURSIVE Join(_, _)
Join(parts, sep) ==
    IF parts = <<>> THEN ""
    ELSE IF Len(parts) = 1 THEN parts[1]
    ELSE parts[1] \o sep \o Join(Tail(parts), sep)

\* one argument of the list: a typed parameter, an untyped one, or nothing
PhpArg(arg, lineNumber) ==
    LET typeParts == Fields(arg)
        n == Len(typeParts)
    IN  IF arg = "" THEN <<>>
        ELSE IF n >= 2 /\ HasPrefix(typeParts[n], "$")
        THEN <<[Name |-> typeParts[n], Type |-> Join(SubSeq(typeParts, 1, n - 1), " "),
                Scope |-> "parameter", Line |-> lineNumber]>>
        ELSE IF HasPrefix(arg, "$")
        THEN <<[Name |-> arg, Type |-> "mixed", Scope |-> "parameter", Line |-> lineNumber]>>
        ELSE <<>>

RECURSIVE PhpArgLoop(_, _)
PhpArgLoop(argsSplit, lineNumber) ==
    IF argsSplit = <<>> THEN <<>>
    ELSE PhpArg(TrimSpace(Head(argsSplit)), lineNumber)
            \o PhpArgLoop(Tail(argsSplit), lineNumber)

parsePhpFunctionArgs(argsStr, lineNumber) == PhpArgLoop(Split(argsStr, ","), lineNumber)

\* the position after the first opening brace at or after classStartPos,
\* -1 when there is none
ClassBodyStart(content, classStartPos) ==
    LET open == Index(Slice(content, classStartPos, Len(content)), "{")
    IN  IF open = -1 THEN -1 ELSE classStartPos + open + 1

RECURSIVE PhpPropertyLoop(_, _, _)
PhpPropertyLoop(content, base, ms) ==
    IF ms = <<>> THEN <<>>
    ELSE LET m == Head(ms)
             propPos == base + m.start
             rest == PhpPropertyLoop(content, base, Tail(ms))
         IN  IF isWithinMethod(content, propPos) THEN rest
             ELSE <<[Name |-> Slice(content, base + m.nameStart, base + m.nameEnd),
                     Type |-> "inferred",
                     Scope |-> Slice(content, base + m.argsStart, base + m.argsEnd),
                     Line |-> countLines(Slice(content, 0, propPos))]>> \o rest

extractPhpProperties(content, classStartPos) ==
    LET classBodyStart == ClassBodyStart(content, classStartPos)
    IN  IF classBodyStart = -1 THEN <<>>
        ELSE PhpPropertyLoop(content, classBodyStart,
                 PhpPropertyMatches(Slice(content, classBodyStart, Len(content))))

RECURSIVE PhpMethodLoop(_, _, _, _)
PhpMethodLoop(content, base, className, ms) ==
    IF ms = <<>> THEN <<>>
    ELSE LET m == Head(ms)
             methodPos == base + m.start
             lineNumber == countLines(Slice(content, 0, methodPos))
         IN  <<[Name |-> Slice(content, base + m.nameStart, base + m.nameEnd),
                Receiver |-> className,
                Line |-> lineNumber,
                Pos |-> methodPos,
                Args |-> parsePhpFunctionArgs(
                             Slice(content, base + m.argsStart, base + m.argsEnd), lineNumber),
                Calls |-> extractPhpFunctionCalls(content, methodPos)]>>
             \o PhpMethodLoop(content, base, className, Tail(ms))

extractPhpMethods(content, classStartPos, className) ==
    LET classBodyStart == ClassBodyStart(content, classStartPos)
    IN  IF classBodyStart = -1 THEN <<>>
        ELSE PhpMethodLoop(content, classBodyStart, className,
                 PhpMethodMatches(Slice(content, classBodyStart, Len(content))))

RECURSIVE PhpClassLoop(_, _)
PhpClassLoop(content, ms) ==
    IF ms = <<>> THEN <<>>
    ELSE LET m == Head(ms)
             className == Slice(content, m.nameStart, m.nameEnd)
         IN  <<[Name |-> className,
                Fields |-> extractPhpProperties(content, m.start),
                Methods |-> extractPhpMethods(content, m.start, className),
                Line |-> countLines(Slice(content, 0, m.start)),
                Pos |-> m.start]>>
             \o PhpClassLoop(content, Tail(ms))

RECURSIVE PhpFunctionLoop(_, _)
PhpFunctionLoop(content, ms) ==
    IF ms = <<>> THEN <<>>
    ELSE LET m == Head(ms)
             lineNumber == countLines(Slice(content, 0, m.start))
             rest == PhpFunctionLoop(content, Tail(ms))
         IN  IF isWithinClass(content, m.start) THEN rest
             ELSE <<[Name |-> Slice(content, m.nameStart, m.nameEnd),
                     Receiver |-> "",
                     Line |-> lineNumber,
                     Pos |-> m.start,
                     Args |-> parsePhpFunctionArgs(
                                  Slice(content, m.argsStart, m.argsEnd), lineNumber),
                     Calls |-> extractPhpFunctionCalls(content, m.start)]>> \o rest

RECURSIVE PhpGlobalVarLoop(_, _)
PhpGlobalVarLoop(content, ms) ==
    IF ms = <<>> THEN <<>>
    ELSE LET m == Head(ms)
             rest == PhpGlobalVarLoop(content, Tail(ms))
         IN  IF isWithinFunction(content, m.start) \/ isWithinClass(content, m.start)
             THEN rest
             ELSE <<[Name |-> "$" \o Slice(content, m.nameStart, m.nameEnd),
                     Type |-> "inferred", Scope |-> "global",
                     Line |-> countLines(Slice(content, 0, m.start))]>> \o rest

\* The summary of one PHP file.  Pos, the byte offset of a declaration, is
\* not a field of the program's records: it is kept for the properties.
analyzePhpFile(content, order) ==
    [Classes |-> PhpClassLoop(content, PhpClassMatches(content)),
     Functions |-> PhpFunctionLoop(content, PhpFunctionMatches(content)),
     ControlFlows |-> extractPhpControlFlow(content, order),
     Variables |-> PhpGlobalVarLoop(content, PhpVarMatches(content))]

(***************************************************************************)
(* The state.  files, config, idx, rk, summary and the registries belong   *)
(* to one run of analyzeDirRecursive; content is the text of the one file  *)
(* a pattern-based extractor is run on, and out what the extractor         *)
(* returned.  pc is the position of the run.                               *)
(***************************************************************************)
VARIABLES files, config, pc, idx, rk, summary, allFunctions, allStructs, content, out

NoOutput == [op |-> "none"]

(***************************************************************************)
(* The directory walk (analyzeDirRecursive).  The files of the directory,  *)
(* in the order filepath.Walk visits them, are drawn from FileMenu; a      *)
(* file's path is its position in the walk.                                *)
(***************************************************************************)
vars == <<files, config, pc, idx, rk, summary, allFunctions, allStructs, content, out>>

Decl(d, name, recv, line) ==
    [d |-> d, name |-> name, recv |-> recv, line |-> line, body |-> <<>>]

\* a function declaration with the statements of its body
FuncDecl(name, recv, line, body) ==
    [d |-> "func", name |-> name, recv |-> recv, line |-> line, body |-> body]

GoFile(parseOK, decls) == [kind |-> "go", parseOK |-> parseOK, decls |-> decls]

Attr(k, v) == [Key |-> k, Val |-> v]

ElementNode(attrs) == [isElement |-> TRUE, attrs |-> attrs]

TextNode == [isElement |-> FALSE, attrs |-> <<>>]

HtmlFile(nodes) == [kind |-> "html", nodes |-> nodes]

\* a PHP or Python file is its text
PhpFile(text) == [kind |-> "php", content |-> text]

PyFile(text) == [kind |-> "py", content |-> text]

FileMenu ==
    { \* the type before its method, and the method before its type
      GoFile(TRUE, <<Decl("type", "T", "", 1), Decl("func", "Run", "*T", 2)>>),
      GoFile(TRUE, <<Decl("func", "Run", "T", 1), Decl("type", "T", "", 2)>>),
      \* a method whose receiver type is declared in another file
      GoFile(TRUE, <<Decl("func", "Stop", "*T", 1)>>),
      GoFile(TRUE, <<Decl("import", "fmt", "", 1), Decl("var", "v", "", 2),
                     Decl("type", "T", "", 3), Decl("interface", "I", "", 4)>>),
      GoFile(TRUE, <<Decl("func", "save", "", 1), Decl("func", "save_item", "", 2)>>),
      GoFile(TRUE, <<Decl("func", "doThing", "", 3)>>),
      \* a file the Go parser rejects
      GoFile(FALSE, <<Decl("import", "os", "", 1), Decl("type", "T", "", 2),
                      Decl("func", "doThing", "", 3)>>),
      HtmlFile(<<ElementNode(<<Attr("id", "b"), Attr("onclick", "doThing()")>>),
                 TextNode,
                 ElementNode(<<Attr("class", "f g"), Attr("action", "api/save.php")>>)>>),
      HtmlFile(<<ElementNode(<<Attr("onchange", "save(1)"), Attr("onclick", "doThing()"),
                               Attr("hx-get", "/x/stop")>>)>>) }

MaxResultsChoices == {0, 1}

EmptySummary ==
    [GoFiles |-> <<>>, PhpFiles |-> <<>>, PythonFiles |-> <<>>, HtmlFiles |-> <<>>,
     CssFiles |-> <<>>, SqlFiles |-> <<>>]

\* the walk's files: the menu entries chosen, each with its path
WithPaths(fs) == [i \in 1..Len(fs) |-> [path |-> i] @@ fs[i]]

RECURSIVE RegisterFunctions(_, _)
RegisterFunctions(reg, fns) ==
    IF fns = <<>> THEN reg
    ELSE RegisterFunctions(MapPut(reg, Head(fns).Name, Head(fns)), Tail(fns))

RECURSIVE RegisterStructs(_, _)
RegisterStructs(reg, strs) ==
    IF strs = <<>> THEN reg
    ELSE RegisterStructs(MapPut(reg, Head(strs).Name, Head(strs)), Tail(strs))

\* the walk's callback on one file; st = [summary, allFunctions, allStructs]
VisitStep(st, file) ==
    CASE file.kind = "go" ->
           LET r == analyzeGoFile(file, st.allStructs)
           IN  [summary |-> [st.summary EXCEPT !.GoFiles = Append(@, r.summary)],
                allFunctions |-> RegisterFunctions(st.allFunctions, r.summary.Functions),
                allStructs |-> RegisterStructs(r.allStructs, r.summary.Structs)]
      [] file.kind = "html" ->
           [st EXCEPT !.summary.HtmlFiles =
                         Append(@, analyzeHtmlFile(file, st.allFunctions))]
      [] OTHER -> st

\* the first pass over a whole list of files
RECURSIVE FirstPass(_, _)
FirstPass(st, fs) ==
    IF fs = <<>> THEN st ELSE FirstPass(VisitStep(st, Head(fs)), Tail(fs))

InitialRegistries ==
    [summary |-> EmptySummary, allFunctions |-> EmptyMap, allStructs |-> EmptyMap]

\* the positions <<i, j>> of the second pass's double loop, in its order
RECURSIVE ElementPositions(_, _)
ElementPositions(htmlFiles, i) ==
    IF i > Len(htmlFiles) THEN <<>>
    ELSE [j \in 1..Len(htmlFiles[i].Elements) |-> <<i, j>>]
         \o ElementPositions(htmlFiles, i + 1)

\* result limiting: summary.X = summary.X[:MaxResults] for each kind of file
Truncate(list, max) == IF Len(list) > max THEN SubSeq(list, 1, max) ELSE list

LimitSummary(s, max) ==
    IF max > 0
    THEN [GoFiles |-> Truncate(s.GoFiles, max), PhpFiles |-> Truncate(s.PhpFiles, max),
          PythonFiles |-> Truncate(s.PythonFiles, max),
          HtmlFiles |-> Truncate(s.HtmlFiles, max),
          CssFiles |-> Truncate(s.CssFiles, max), SqlFiles |-> Truncate(s.SqlFiles, max)]
    ELSE s

FileLists == UNION { [1..n -> FileMenu] : n \in 0..MaxFiles }

Init ==
    /\ files \in { WithPaths(fs) : fs \in FileLists }
    /\ config \in [MaxResults : MaxResultsChoices]
    /\ pc = "walk"
    /\ idx = 1
    /\ rk = 1
    /\ summary = EmptySummary
    /\ allFunctions = EmptyMap
    /\ allStructs = EmptyMap
    /\ content = ""
    /\ out = NoOutput

\* filepath.Walk calls the callback on the next file, a Go or an HTML file
VisitFile ==
    /\ pc = "walk"
    /\ idx <= Len(files)
    /\ files[idx].kind \notin {"php", "py"}
    /\ LET st == VisitStep([summary |-> summary, allFunctions |-> allFunctions,
                            allStructs |-> allStructs], files[idx])
       IN  /\ summary' = st.summary
           /\ allFunctions' = st.allFunctions
           /\ allStructs' = st.allStructs
    /\ idx' = idx + 1
    /\ UNCHANGED <<files, config, pc, rk, content, out>>

\* filepath.Walk returns: the second pass begins
WalkReturns ==
    /\ pc = "walk"
    /\ idx > Len(files)
    /\ pc' = "resolve"
    /\ rk' = 1
    /\ UNCHANGED <<files, config, idx, summary, allFunctions, allStructs, content, out>>

\* the second pass mutated: the resolver stores its result and empties the
\* element's attribute map
ResolveElement_ClearsAttributes ==
    /\ pc = "resolve"
    /\ rk <= Len(ElementPositions(summary.HtmlFiles, 1))
    /\ LET pos == ElementPositions(summary.HtmlFiles, 1)[rk]
           element == summary.HtmlFiles[pos[1]].Elements[pos[2]]
       IN  \E ord \in MapOrders(element, allFunctions) :
              summary' = [summary EXCEPT
                            !.HtmlFiles[pos[1]].Elements[pos[2]] =
                                [@ EXCEPT !.LinkedFunctions =
                                              findLinkedFunctions(element, allFunctions, ord),
                                          !.Attributes = EmptyMap]]
    /\ rk' = rk + 1
    /\ UNCHANGED <<files, config, pc, idx, allFunctions, allStructs, content, out>>

\* one iteration of the second pass: the resolver on the next element
ResolveElement ==
    /\ pc = "resolve"
    /\ rk <= Len(ElementPositions(summary.HtmlFiles, 1))
    /\ LET pos == ElementPositions(summary.HtmlFiles, 1)[rk]
           element == summary.HtmlFiles[pos[1]].Elements[pos[2]]
       IN  \E ord \in MapOrders(element, allFunctions) :
              summary' = [summary EXCEPT
                            !.HtmlFiles[pos[1]].Elements[pos[2]].LinkedFunctions =
                                findLinkedFunctions(element, allFunctions, ord)]
    /\ rk' = rk + 1
    /\ UNCHANGED <<files, config, pc, idx, allFunctions, allStructs, content, out>>

\* the second pass is over: the results are limited and returned
LimitResults ==
    /\ pc = "resolve"
    /\ rk > Len(ElementPositions(summary.HtmlFiles, 1))
    /\ summary' = LimitSummary(summary, config.MaxResults)
    /\ pc' = "done"
    /\ UNCHANGED <<files, config, idx, rk, allFunctions, allStructs, content, out>>

Next == VisitFile \/ WalkReturns \/ ResolveElement \/ LimitResults

Spec == Init /\ [][Next]_vars

(***************************************************************************)
(* The walk over one Go file and one HTML file with a single element: the  *)
(* Go file declares a few functions drawn from NamePool, the element has a *)
(* few attributes drawn from AttrPool (at most one value for each key).    *)
(***************************************************************************)
MaxNames == 2

MaxAttrs == 2

NamePool == {"doThing", "save", "Save_item", "saved", "stopHandler", "st", "handler"}

AttrPool ==
    <<Attr("onclick", "doThing()"), Attr("onclick", "save"), Attr("onchange", "save(1)"),
      Attr("data-function", "save"), Attr("data-function", "stop"),
      Attr("action", "api/save.php"), Attr("action", "Save.php?x=1"),
      Attr("action", "save.html"), Attr("hx-get", "/x/stop"), Attr("hx-get", "stop"),
      Attr("hx-post", "/api/"), Attr("hx-post", "/x/Saved.html"), Attr("title", "t")>>

\* a Go file that declares the functions of names, one per line
FuncDecls(names) ==
    [i \in 1..Cardinality(names) |-> Decl("func", SetToSeq(names)[i], "", i)]

\* the attribute lists an element of the menu can have
AttrLists ==
    { [i \in 1..Cardinality(S) |-> AttrPool[Ascending(S)[i]]] :
         S \in { T \in SUBSET (1..Len(AttrPool)) :
                   /\ Cardinality(T) <= MaxAttrs
                   /\ \A a, b \in T : a # b => AttrPool[a].Key # AttrPool[b].Key } }

LinkFileLists ==
    { <<GoFile(TRUE, FuncDecls(names)), HtmlFile(<<ElementNode(attrs)>>)>> :
         names \in { N \in SUBSET NamePool : Cardinality(N) <= MaxNames },
         attrs \in AttrLists }

InitLink ==
    /\ files \in { WithPaths(fs) : fs \in LinkFileLists }
    /\ config = [MaxResults |-> 0]
    /\ pc = "walk"
    /\ idx = 1
    /\ rk = 1
    /\ summary = EmptySummary
    /\ allFunctions = EmptyMap
    /\ allStructs = EmptyMap
    /\ content = ""
    /\ out = NoOutput

SpecLink == InitLink /\ [][Next]_vars

(***************************************************************************)
(* The pattern-based extractors on the text of one file.  The text is      *)
(* drawn from the concatenations of a few fragments (PHP) or from a few    *)
(* lines joined by newlines (Python); one call of an extractor is made on  *)
(* it and out records what the call computed.                              *)
(***************************************************************************)
MaxPhpFrags == 4

MaxPyLines == 3

PhpFragments == {"if(a){", "for(b){", "}", "g();", "function f(){", "\n"}

PyLineMenu ==
    {""} \cup { indent \o line : indent \in {"", " ", "  "},
                line \in {"def f():", "class A:", "if x:", "for i in y:", "x = 1"} }

RECURSIVE Concat(_)
Concat(parts) == IF parts = <<>> THEN "" ELSE Head(parts) \o Concat(Tail(parts))

\* strings.Join(lines, "\n")
RECURSIVE JoinLines(_)
JoinLines(lines) ==
    IF lines = <<>> THEN ""
    ELSE IF Len(lines) = 1 THEN lines[1]
    ELSE lines[1] \o "\n" \o JoinLines(Tail(lines))

\* a block whose body holds a closing brace inside a quoted string
QuotedBraceExample == "if ($x) { echo \"}\"; while ($y) { } }"

\* a block whose body holds an opening brace inside a quoted string, followed
\* by a second block on the next line
QuotedOpenExample == "if ($x) { echo \"{\"; }\nwhile ($y) {\n}"

PhpInputs ==
    {QuotedBraceExample, QuotedOpenExample}
      \cup { Concat(fs) : fs \in UNION { [1..n -> PhpFragments] : n \in 0..MaxPhpFrags } }

\* a class with a field, a method that assigns, and a later function that
\* assigns
ClassFieldExample ==
    "class Account:\n    rate = 1\n    def deposit(self):\n        total = 2\ndef helper():\n    tmp = 3"

PyInputs ==
    {ClassFieldExample}
      \cup { JoinLines(ls) : ls \in UNION { [1..n -> PyLineMenu] : n \in 0..MaxPyLines } }

\* the orders in which a range over the patterns map can visit its keys, up
\* to the order of the keys whose pattern matches nothing in the text
PhpOrders(text) ==
    RepOrders(PhpControlTypes, { t \in PhpControlTypes : KeywordMatches(text, t) # <<>> })

PyOrders(text) ==
    RepOrders(PyControlTypes, { t \in PyControlTypes : PyControlMatches(text, t, 0) # <<>> })

\* the positions extractPhpControlFlow starts a nested search from
PhpControlPositions(text) ==
    { i \in 0..(Len(text) - 1) :
        /\ \E t \in PhpControlTypes : KeywordAt(text, i, t)
        /\ ~isWithinString(text, i) }

\* line positions: the start of each line and its first non-blank character
PyLinePositions(text) ==
    LineStarts(text)
      \cup { p + Indent(Slice(text, p, Len(text))) : p \in LineStarts(text) }

InitText(stage, inputs) ==
    /\ files = <<>>
    /\ config = [MaxResults |-> 0]
    /\ pc = stage
    /\ idx = 1
    /\ rk = 1
    /\ summary = EmptySummary
    /\ allFunctions = EmptyMap
    /\ allStructs = EmptyMap
    /\ content \in inputs
    /\ out = NoOutput

InitPhp == InitText("php", PhpInputs)

InitPy == InitText("python", PyInputs)

\* the call returns: out holds its record
Return(record) ==
    /\ out' = record
    /\ pc' = "returned"
    /\ UNCHANGED <<files, config, idx, rk, summary, allStructs, content>>

ExtractPhpControlFlow ==
    /\ pc = "php"
    /\ \E order \in PhpOrders(content) :
          Return([op |-> "extractPhpControlFlow",
                  controls |-> extractPhpControlFlow(content, order)])
    /\ UNCHANGED allFunctions

FindNestedPhpControlFlow ==
    /\ pc = "php"
    /\ \E startPos \in PhpControlPositions(content), order \in PhpOrders(content) :
          Return([op |-> "findNestedPhpControlFlow", startPos |-> startPos,
                  block |-> PhpBlock(content, startPos),
                  children |-> findNestedPhpControlFlow(content, startPos, order)])
    /\ UNCHANGED allFunctions

ExtractPhpFunctionCalls ==
    /\ pc = "php"
    /\ \E funcStartPos \in { FunctionMatches(content)[k] :
                               k \in 1..Len(FunctionMatches(content)) } :
          Return([op |-> "extractPhpFunctionCalls", startPos |-> funcStartPos,
                  block |-> PhpBlock(content, funcStartPos),
                  calls |-> extractPhpFunctionCalls(content, funcStartPos)])
    /\ UNCHANGED allFunctions

NextPhp == ExtractPhpControlFlow \/ FindNestedPhpControlFlow \/ ExtractPhpFunctionCalls

SpecPhp == InitPhp /\ [][NextPhp]_vars

MaxClassFrags == 4

PhpClassFragments == {"class A{", "class B{", "function g(){", "}", "public $p;", "h();"}

\* whole files given as examples
PhpScenarios == {"class Foo { public function bar($x) { baz(); } }"}

PhpFileInputs ==
    PhpScenarios
      \cup { Concat(fs) : fs \in UNION { [1..n -> PhpClassFragments] : n \in 0..MaxClassFrags } }

InitPhpFile == InitText("phpfile", PhpFileInputs)

\* analyzePhpFile returns its summary, having registered the file's free
\* functions
AnalyzePhpFile ==
    /\ pc = "phpfile"
    /\ \E r \in { analyzePhpFile(content, order) : order \in PhpOrders(content) } :
          /\ Return([op |-> "analyzePhpFile", result |-> r])
          /\ allFunctions' = RegisterFunctions(allFunctions, r.Functions)

NextPhpFile == AnalyzePhpFile

SpecPhpFile == InitPhpFile /\ [][NextPhpFile]_vars

ExtractPythonControlFlow ==
    /\ pc = "python"
    /\ \E order \in PyOrders(content) :
          Return([op |-> "extractPythonControlFlow",
                  controls |-> extractPythonControlFlow(content, order)])
    /\ UNCHANGED allFunctions

IsPythonWithinFunction ==
    /\ pc = "python"
    /\ \E pos \in PyLinePositions(content) :
          Return([op |-> "isPythonWithinFunction", pos |-> pos,
                  value |-> isPythonWithinFunction(content, pos)])
    /\ UNCHANGED allFunctions

\* analyzePythonFile returns its summary, having registered the file's
\* functions, or aborts
AnalyzePythonFile ==
    /\ pc = "python"
    /\ \E r \in { analyzePythonFile(content, order) : order \in PyOrders(content) } :
          /\ Return([op |-> "analyzePythonFile", result |-> r])
          /\ allFunctions' = IF r.panicked THEN allFunctions
                             ELSE RegisterFunctions(allFunctions, r.Functions)

NextPy == ExtractPythonControlFlow \/ IsPythonWithinFunction \/ AnalyzePythonFile

SpecPy == InitPy /\ [][NextPy]_vars

\* the operations on PHP and on Python text together
InitNested == InitPhp \/ InitPy

NextNested == NextPhp \/ NextPy

SpecNested == InitNested /\ [][NextNested]_vars

(***************************************************************************)
(* The methods of one Python class: extractPythonClassMethods on the text  *)
(* of a class built from decorated methods, and parsePythonFunctionArgs on *)
(* the parameter list of one of them.                                      *)
(***************************************************************************)
MaxMethods == 2

PyDecoratorMenu == {"", "    @staticmethod\n", "    @classmethod\n"}

PyParamMenu ==
    {"self", "cls, x", "x: int = 1", "d: Dict[str, int] = {}", "self, p=(1, 2)",
     "self, *args, **kw"}

PyMethodNames == <<"a", "b", "c">>

PyMethodText(name, decorator, params) ==
    decorator \o "    def " \o name \o "(" \o params \o "):\n        pass\n"

PyMethodChoices == PyDecoratorMenu \X PyParamMenu

PyClassTexts ==
    { "class Account:\n"
        \o Concat([k \in 1..Len(ms) |-> PyMethodText(PyMethodNames[k], ms[k][1], ms[k][2])]) :
      ms \in UNION { [1..n -> PyMethodChoices] : n \in 0..MaxMethods } }

InitPyClass == InitText("pyclass", PyClassTexts)

\* extractPythonClassMethods returns the methods of the class of the text
ExtractPythonClassMethods ==
    /\ pc = "pyclass"
    /\ \E k \in 1..Len(ClassMatches(content)) :
          LET m == ClassMatches(content)[k]
          IN  Return([op |-> "extractPythonClassMethods", classBodyStart |-> m.end + 1,
                      result |-> extractPythonClassMethods(
                                     content, m.end + 1,
                                     Slice(content, m.nameStart, m.nameEnd))])
    /\ UNCHANGED allFunctions

\* parsePythonFunctionArgs returns the parameters of one parameter list of
\* the text
ParsePythonFunctionArgs ==
    /\ pc = "pyclass"
    /\ \E k \in 1..Len(MethodMatches(content)) :
          LET m == MethodMatches(content)[k]
              argsStr == Slice(content, m.argsStart, m.argsEnd)
          IN  Return([op |-> "parsePythonFunctionArgs", argsStr |-> argsStr,
                      args |-> parsePythonFunctionArgs(argsStr, 1)])
    /\ UNCHANGED allFunctions

NextPyClass == ExtractPythonClassMethods \/ ParsePythonFunctionArgs

SpecPyClass == InitPyClass /\ [][NextPyClass]_vars

(***************************************************************************)
(* analyzeGoFile on a file with one function whose body is built from a    *)
(* menu of statements: calls through identifiers, selectors and selector   *)
(* chains, and nested if, for and switch statements.                       *)
(***************************************************************************)
MaxStmts == 2

Ident(name) == [e |-> "ident", name |-> name]

Sel(x, sel) == [e |-> "sel", x |-> x, sel |-> sel]

Call(fun, args) == [e |-> "call", fun |-> fun, args |-> args]

ExprStmt(x) == [s |-> "expr", x |-> x]

IfStmt(line, body, els) == [s |-> "if", line |-> line, body |-> body, els |-> els]

ForStmt(line, body) == [s |-> "for", line |-> line, body |-> body]

SwitchStmt(line, clauses) == [s |-> "switch", line |-> line, clauses |-> clauses]

BlockStmt(body) == [s |-> "block", body |-> body]

\* the statements a body is built from; the lines count from the start of
\* the statement
GoStmtMenu ==
    { \* f()   x.f()   a.b.c()   g(f())
      ExprStmt(Call(Ident("f"), <<>>)),
      ExprStmt(Call(Sel(Ident("x"), "f"), <<>>)),
      ExprStmt(Call(Sel(Sel(Ident("a"), "b"), "c"), <<>>)),
      ExprStmt(Call(Ident("g"), <<Call(Ident("f"), <<>>)>>)),
      \* if { for { f() } }
      IfStmt(1, <<ForStmt(2, <<ExprStmt(Call(Ident("f"), <<>>))>>)>>, <<>>),
      \* if { } else if { }
      IfStmt(1, <<>>, <<IfStmt(2, <<>>, <<>>)>>),
      \* switch { case 1: if { }  case 2: { for { } } }
      SwitchStmt(1, << <<IfStmt(2, <<>>, <<>>)>>, <<BlockStmt(<<ForStmt(3, <<>>)>>)>> >>),
      \* for { switch { case 1: x.f() } }
      ForStmt(1, <<SwitchStmt(2, << <<ExprStmt(Call(Sel(Ident("x"), "f"), <<>>))>> >>)>>) }

\* the statement moved down by off lines
RECURSIVE Shift(_, _)
RECURSIVE ShiftList(_, _)
Shift(stmt, off) ==
    CASE stmt.s = "expr" -> stmt
      [] stmt.s = "if" -> IfStmt(stmt.line + off, ShiftList(stmt.body, off),
                                 ShiftList(stmt.els, off))
      [] stmt.s = "for" -> ForStmt(stmt.line + off, ShiftList(stmt.body, off))
      [] stmt.s = "switch" ->
           SwitchStmt(stmt.line + off,
                      [c \in 1..Len(stmt.clauses) |-> ShiftList(stmt.clauses[c], off)])
      [] OTHER -> BlockStmt(ShiftList(stmt.body, off))

ShiftList(stmts, off) == [k \in 1..Len(stmts) |-> Shift(stmts[k], off)]

\* the bodies: up to MaxStmts statements of the menu, ten lines apart
GoBodies ==
    { [k \in 1..Len(ms) |-> Shift(ms[k], 10 * k)] :
        ms \in UNION { [1..n -> GoStmtMenu] : n \in 0..MaxStmts } }

InitGoBody ==
    /\ files \in { WithPaths(<<GoFile(TRUE, <<FuncDecl("run", "", 1, body)>>)>>) :
                     body \in GoBodies }
    /\ config = [MaxResults |-> 0]
    /\ pc = "walk"
    /\ idx = 1
    /\ rk = 1
    /\ summary = EmptySummary
    /\ allFunctions = EmptyMap
    /\ allStructs = EmptyMap
    /\ content = ""
    /\ out = NoOutput

NextGoBody == VisitFile \/ WalkReturns

SpecGoBody == InitGoBody /\ [][NextGoBody]_vars

(***************************************************************************)
(* The first pass over Go, PHP and Python files that declare functions of  *)
(* the same names.                                                         *)
(***************************************************************************)
RegistryMenu ==
    { GoFile(TRUE, <<Decl("func", "doThing", "", 3)>>),
      GoFile(TRUE, <<Decl("func", "save", "", 1), Decl("func", "save_item", "", 2)>>),
      PhpFile("function doThing($a) { save(); }"),
      \* the same name twice in one file
      PhpFile("function save() { }\nfunction save($b) { g(); }"),
      \* a method is not a free function
      PhpFile("class K { function doThing() { } }"),
      PyFile("# handlers of the page\ndef doThing():\n    pass\ndef save_item(): pass"),
      \* a definition that ends before byte 20: extractPythonReturnType aborts
      PyFile("def save():\n    pass") }

InitRegistry ==
    /\ files \in { WithPaths(fs) : fs \in UNION { [1..n -> RegistryMenu] : n \in 0..MaxFiles } }
    /\ config = [MaxResults |-> 0]
    /\ pc = "walk"
    /\ idx = 1
    /\ rk = 1
    /\ summary = EmptySummary
    /\ allFunctions = EmptyMap
    /\ allStructs = EmptyMap
    /\ content = ""
    /\ out = NoOutput

\* the callback on a PHP file: analyzePhpFile registers each free function
\* as it finds it, and the callback registers the list again
VisitPhpFile ==
    /\ pc = "walk"
    /\ idx <= Len(files)
    /\ files[idx].kind = "php"
    /\ \E r \in { analyzePhpFile(files[idx].content, order) :
                     order \in PhpOrders(files[idx].content) } :
          /\ summary' = [summary EXCEPT
                            !.PhpFiles = Append(@, [FilePath |-> files[idx].path] @@ r)]
          /\ allFunctions' = RegisterFunctions(RegisterFunctions(allFunctions, r.Functions),
                                               r.Functions)
    /\ idx' = idx + 1
    /\ UNCHANGED <<files, config, pc, rk, allStructs, content, out>>

\* the callback on a Python file: as for PHP, unless analyzePythonFile
\* aborts the program
VisitPythonFile ==
    /\ pc = "walk"
    /\ idx <= Len(files)
    /\ files[idx].kind = "py"
    /\ \E r \in { analyzePythonFile(files[idx].content, order) :
                     order \in PyOrders(files[idx].content) } :
          IF r.panicked
          THEN /\ pc' = "panicked"
               /\ UNCHANGED <<idx, summary, allFunctions>>
          ELSE /\ summary' = [summary EXCEPT
                                 !.PythonFiles = Append(@, [FilePath |-> files[idx].path] @@ r)]
               /\ allFunctions' =
                     RegisterFunctions(RegisterFunctions(allFunctions, r.Functions),
                                       r.Functions)
               /\ idx' = idx + 1
               /\ pc' = pc
    /\ UNCHANGED <<files, config, rk, allStructs, content, out>>

NextRegistry == VisitFile \/ VisitPhpFile \/ VisitPythonFile \/ WalkReturns

SpecRegistry == InitRegistry /\ [][NextRegistry]_vars

(***************************************************************************)
(* File selection: main completes the exclude patterns, then the walk      *)
(* callback of analyzeDirRecursive prunes excluded directories and decides *)
(* for each file whether it is processed.  files is the directory tree in  *)
(* walk order (a directory before its entries, names in lexical order);    *)
(* an entry is the sequence of names from the directory given to -dir down *)
(* to it.  out.processed lists the files handed to the analysers.          *)
(***************************************************************************)
\* filepath.Match for patterns made of literal characters, * and ?
RECURSIVE Match(_, _)
Match(pattern, name) ==
    IF pattern = "" THEN name = ""
    ELSE IF At(pattern, 0) = "*"
    THEN \/ Match(Slice(pattern, 1, Len(pattern)), name)
         \/ name # "" /\ Match(pattern, Slice(name, 1, Len(name)))
    ELSE /\ name # ""
         /\ At(pattern, 0) \in {"?", At(name, 0)}
         /\ Match(Slice(pattern, 1, Len(pattern)), Slice(name, 1, Len(name)))

MatchesAny(patterns, name) == \E k \in 1..Len(patterns) : Match(patterns[k], name)

DirEntry(path) == [path |-> path, isDir |-> TRUE]

FileEntry(path) == [path |-> path, isDir |-> FALSE]

Name(entry) == entry.path[Len(entry.path)]

RootNames == {"proj", "venv"}

Tree(root) ==
    <<DirEntry(<<root>>),
      FileEntry(<<root, "a.go">>),
      DirEntry(<<root, "lib">>),
      FileEntry(<<root, "lib", "b.py">>),
      DirEntry(<<root, "venv">>),
      FileEntry(<<root, "venv", "c.py">>),
      DirEntry(<<root, "venv", "lib">>),
      FileEntry(<<root, "venv", "lib", "d.go">>),
      FileEntry(<<root, "x.php">>)>>

\* the values of the -files, -exclude and -include flags, split at commas
FilesFlags == {<<>>, <<"a.go">>, <<"c.py", "x.php">>, <<"d.go">>}

ExcludeFlags == { SetToSeq(S) : S \in SUBSET {"lib", "venv", "*.py", "a*"} }

IncludeFlags == { SetToSeq(S) : S \in SUBSET {"*.go", "*.py", "?.php"} }

InitSelect ==
    /\ files \in { Tree(root) : root \in RootNames }
    /\ config \in { [MaxResults |-> 0, TargetFiles |-> f, exclude |-> e,
                     ExcludePatterns |-> e, IncludePatterns |-> i] :
                      f \in FilesFlags, e \in ExcludeFlags, i \in IncludeFlags }
    /\ pc = "main"
    /\ idx = 1
    /\ rk = 1
    /\ summary = EmptySummary
    /\ allFunctions = EmptyMap
    /\ allStructs = EmptyMap
    /\ content = ""
    /\ out = [op |-> "analyzeDirRecursive", processed |-> <<>>]

\* main: venv is added to the exclude patterns unless it is among them
AddVenvExclude ==
    /\ pc = "main"
    /\ config' = [config EXCEPT !.ExcludePatterns =
                     IF \E k \in 1..Len(@) : @[k] = "venv" THEN @ ELSE Append(@, "venv")]
    /\ pc' = "select"
    /\ UNCHANGED <<files, idx, rk, summary, allFunctions, allStructs, content, out>>

\* filepath.SkipDir returned at the directory files[i]: the walk continues
\* at the first later entry that is not below it
SkipDir_Descend(tree, i) == i + 1

SkipDir(tree, i) ==
    LET dir == tree[i].path
        below(j) == Len(tree[j].path) > Len(dir)
                      /\ SubSeq(tree[j].path, 1, Len(dir)) = dir
        later == { j \in (i + 1)..Len(tree) : ~below(j) }
    IN  IF later = {} THEN Len(tree) + 1 ELSE CHOOSE j \in later : \A k \in later : j <= k

\* the callback's decision for a file of the given base name
shouldProcess(name, cfg) ==
    /\ Len(cfg.TargetFiles) > 0 => \E k \in 1..Len(cfg.TargetFiles) : cfg.TargetFiles[k] = name
    /\ ~MatchesAny(cfg.ExcludePatterns, name)
    /\ Len(cfg.IncludePatterns) > 0 => MatchesAny(cfg.IncludePatterns, name)

\* the walk callback on the next entry
WalkFn ==
    /\ pc = "select"
    /\ idx <= Len(files)
    /\ LET entry == files[idx]
       IN  IF entry.isDir
           THEN /\ idx' = IF MatchesAny(config.ExcludePatterns, Name(entry))
                          THEN SkipDir(files, idx) ELSE idx + 1
                /\ out' = out
           ELSE /\ idx' = idx + 1
                /\ out' = IF shouldProcess(Name(entry), config)
                          THEN [out EXCEPT !.processed = Append(@, entry.path)]
                          ELSE out
    /\ UNCHANGED <<files, config, pc, rk, summary, allFunctions, allStructs, content>>

\* filepath.Walk returns
SelectReturns ==
    /\ pc = "select"
    /\ idx > Len(files)
    /\ pc' = "selected"
    /\ UNCHANGED <<files, config, idx, rk, summary, allFunctions, allStructs, content, out>>

NextSelect == AddVenvExclude \/ WalkFn \/ SelectReturns

SpecSelect == InitSelect /\ [][NextSelect]_vars

(***************************************************************************)
(* Properties of the walk, the method merge and the resolver.              *)
(***************************************************************************)
\* every element of the summary, with the second-pass position it has
AllElements ==
    { summary.HtmlFiles[i].Elements[j] :
         <<i, j>> \in { <<a, b>> \in (1..Len(summary.HtmlFiles)) \X (1..4) :
                           b <= Len(summary.HtmlFiles[a].Elements) } }

\* the file of the walk a summary entry was made from
FileOf(entry) == files[entry.FilePath]

\* the names of the methods the summary of one Go file lists for the struct T
MethodNames(goSummary, T) ==
    LET ss == SelectSeq(goSummary.Structs, LAMBDA x : x.Name = T)
    IN  [i \in 1..Len(ss) |-> [k \in 1..Len(ss[i].Methods) |-> ss[i].Methods[k].Name]]

\* a Go file with its struct type declarations moved before everything else
TypesFirst(file) ==
    [file EXCEPT !.decls = SelectSeq(@, LAMBDA x : x.d = "type")
                           \o SelectSeq(file.decls, LAMBDA x : x.d # "type")]

StructNames(file) == { file.decls[i].name : i \in { k \in DOMAIN file.decls : file.decls[k].d = "type" } }

\* C1: for a fixed element and a fixed registry, every evaluation of
\* findLinkedFunctions returns the same list in the same order: the resolver
\* has exactly one possible result for each element it is run on.
C1_ResolverDeterministic ==
    pc # "walk" =>
       \A e \in AllElements : Cardinality(LinkedOutcomes(e, allFunctions)) = 1

\* C2: the Methods list of a struct type in the file summary is the one the
\* same file yields when the type declaration is visited before the methods,
\* and right after the file's visit the struct registry holds the same list.
C2_MethodMergeOrderIndependent ==
    \A k \in 1..Len(summary.GoFiles) :
       LET entry == summary.GoFiles[k]
           file == FileOf(entry)
           reference == analyzeGoFile(TypesFirst(file), EmptyMap).summary
       IN  file.parseOK =>
              \A T \in StructNames(file) :
                 /\ MethodNames(entry, T) = MethodNames(reference, T)
                 /\ (pc = "walk" /\ entry.FilePath = idx - 1) =>
                       \A i \in 1..Len(MethodNames(reference, T)) :
                          [m \in 1..Len(allStructs[T].Methods) |->
                              allStructs[T].Methods[m].Name] = MethodNames(reference, T)[i]

\* the methods with receiver T (or *T) declared in the parsed Go files of the
\* walk other than the file at path p
MethodsElsewhere(T, p) ==
    { files[i].decls[k].name :
         <<i, k>> \in { <<a, b>> \in (1..Len(files)) \X (1..4) :
                           /\ a # p
                           /\ files[a].kind = "go"
                           /\ files[a].parseOK
                           /\ b <= Len(files[a].decls)
                           /\ files[a].decls[b].d = "func"
                           /\ TrimPrefix(files[a].decls[b].recv, "*") = T } }

\* C4: in the returned Summary, a struct type's Methods list holds every
\* method with that receiver type that is declared in another file of the
\* walk, whichever of the two files is visited first.
C4_CrossFileMethodsMerged ==
    pc = "done" =>
       \A k \in 1..Len(summary.GoFiles) :
          LET entry == summary.GoFiles[k]
          IN  \A s \in 1..Len(entry.Structs) :
                 \A m \in MethodsElsewhere(entry.Structs[s].Name, entry.FilePath) :
                    \E q \in 1..Len(entry.Structs[s].Methods) :
                       entry.Structs[s].Methods[q].Name = m

\* the functions declared by the parsed Go files of the walk
DeclaredFunctions ==
    { files[i].decls[k].name :
         <<i, k>> \in { <<a, b>> \in (1..Len(files)) \X (1..4) :
                           /\ files[a].kind = "go"
                           /\ files[a].parseOK
                           /\ b <= Len(files[a].decls)
                           /\ files[a].decls[b].d = "func" } }

\* the elements the second pass has reached so far
ResolvedElements ==
    LET pos == ElementPositions(summary.HtmlFiles, 1)
    IN  IF pc = "walk" THEN {}
        ELSE { summary.HtmlFiles[pos[n][1]].Elements[pos[n][2]] :
                  n \in { q \in 1..Len(pos) : pc = "done" \/ q < rk } }

\* C3: no element has a linked function before the first pass of every file
\* is over, and once the resolver has run on an element whose on* attribute
\* calls a function declared by any file of the walk (before or after the
\* HTML file), that function is linked.
C3_ResolverAfterFirstPass ==
    /\ pc = "walk" => \A e \in AllElements : e.LinkedFunctions = <<>>
    /\ \A e \in AllElements \ ResolvedElements : e.LinkedFunctions = <<>>
    /\ \A e \in ResolvedElements :
          \A key \in DOMAIN e.Attributes :
             (/\ HasPrefix(key, "on")
              /\ FirstCallIdent(e.Attributes[key]) \in DeclaredFunctions)
             => \E q \in 1..Len(e.LinkedFunctions) :
                   e.LinkedFunctions[q] = FirstCallIdent(e.Attributes[key])

\* a function declared in a file visited after the HTML file has been linked
C3_Witness ==
    /\ pc = "done"
    /\ \E h \in 1..Len(summary.HtmlFiles) :
          \E j \in 1..Len(summary.HtmlFiles[h].Elements) :
             \E q \in 1..Len(summary.HtmlFiles[h].Elements[j].LinkedFunctions) :
                \E i \in 1..Len(files) :
                   /\ i > summary.HtmlFiles[h].FilePath
                   /\ files[i].kind = "go" /\ files[i].parseOK
                   /\ \E d \in 1..Len(files[i].decls) :
                         /\ files[i].decls[d].d = "func"
                         /\ files[i].decls[d].name =
                               summary.HtmlFiles[h].Elements[j].LinkedFunctions[q]
                   /\ \A i2 \in 1..(summary.HtmlFiles[h].FilePath) :
                         files[i2].kind # "go"

IsFailingGo(file) == file.kind = "go" /\ ~file.parseOK

\* an element with its linked-function list cleared
Unlinked(htmlFiles) ==
    [i \in 1..Len(htmlFiles) |->
        [htmlFiles[i] EXCEPT !.Elements =
            [j \in 1..Len(htmlFiles[i].Elements) |->
                [htmlFiles[i].Elements[j] EXCEPT !.LinkedFunctions = <<>>]]]]

\* C8: a Go file the parser rejects yields a summary holding only its path,
\* leaves both registries as they were, and does not stop the walk: the
\* registries and the summaries of all other files are those of the walk over
\* the same files without the rejected ones.
C8_ParseFailureContained ==
    pc # "done" =>
       LET visited == SubSeq(files, 1, idx - 1)
           ref == FirstPass(InitialRegistries,
                            SelectSeq(visited, LAMBDA f : ~IsFailingGo(f)))
       IN  /\ \A k \in 1..Len(summary.GoFiles) :
                 IsFailingGo(FileOf(summary.GoFiles[k])) =>
                    summary.GoFiles[k] = GoFileSummary(summary.GoFiles[k].FilePath)
           /\ allFunctions = ref.allFunctions
           /\ allStructs = ref.allStructs
           /\ SelectSeq(summary.GoFiles, LAMBDA g : ~IsFailingGo(FileOf(g)))
                 = ref.summary.GoFiles
           /\ Unlinked(summary.HtmlFiles) = ref.summary.HtmlFiles
           /\ Len(summary.GoFiles) + Len(summary.HtmlFiles) = idx - 1
           /\ \A e \in ResolvedElements :
                 e.LinkedFunctions \in LinkedOutcomes(e, ref.allFunctions)

\* the parser has rejected a file holding declarations, and a later Go file
\* of the walk has been analysed
C8_Witness ==
    /\ pc = "walk"
    /\ \E i, j \in 1..(idx - 1) :
          /\ i < j
          /\ IsFailingGo(files[i]) /\ files[i].decls # <<>>
          /\ files[j].kind = "go" /\ files[j].parseOK
          /\ \E k \in 1..Len(summary.GoFiles) :
                summary.GoFiles[k].FilePath = j /\ summary.GoFiles[k].Functions # <<>>

(***************************************************************************)
(* Control-flow forests and block-end location.                            *)
(***************************************************************************)
\* the types down a forest that is a chain (one root, each node the sole
\* child of its parent), <<"not a chain">> otherwise
RECURSIVE ChainTypes(_)
ChainTypes(forest) ==
    IF forest = <<>> THEN <<>>
    ELSE IF Len(forest) # 1 THEN <<"not a chain">>
    ELSE LET below == ChainTypes(forest[1].Children)
         IN  IF below = <<"not a chain">> THEN below ELSE <<forest[1].Type>> \o below

PyControlHeaders == {"if x:", "for i in y:"}

\* the control-flow headers of a text that is one construct nested N levels
\* deep, one construct per level, at the top level or inside one function;
\* <<>> when the text is not of that form
PyNestHeaders(text) ==
    LET lines == SplitLines(text)
        inDef == Len(lines) > 1 /\ lines[1] = "def f():"
        heads == IF inDef THEN Tail(lines) ELSE lines
        base == IF inDef THEN 1 ELSE 0
    IN  IF /\ heads # <<>>
           /\ \A k \in 1..Len(heads) :
                 /\ TrimSpace(heads[k]) \in PyControlHeaders
                 /\ Indent(heads[k]) = base + k - 1
        THEN heads
        ELSE <<>>

HeaderType(line) == IF TrimSpace(line) = "if x:" THEN "if" ELSE "for"

\* C5: a source holding one control-flow construct nested N levels deep, one
\* construct per level (alone or inside `def`), yields a forest with exactly
\* one root that is a chain of N nodes, each the sole child of its parent, of
\* the constructs' types from the outermost in; the function is not a node.
C5_NestedChain ==
    (out.op = "extractPythonControlFlow" /\ PyNestHeaders(content) # <<>>)
        => ChainTypes(out.controls) =
              [k \in 1..Len(PyNestHeaders(content)) |-> HeaderType(PyNestHeaders(content)[k])]

\* opening minus closing braces of text at the positions a..b
Balance(text, a, b) ==
    Cardinality({ k \in a..b : At(text, k) = "{" })
      - Cardinality({ k \in a..b : At(text, k) = "}" })

\* well-formed brace-delimited text: no closing brace without its opening
\* brace before it, and every opening brace closed
WellFormed(text) ==
    /\ \A b \in 0..(Len(text) - 1) : Balance(text, 0, b) >= 0
    /\ Balance(text, 0, Len(text) - 1) = 0

\* the positions after the brace at open where the running balance is zero
ZeroBalance(text, open) ==
    { p \in (open + 1)..(Len(text) - 1) : Balance(text, open, p) = 0 }

BlockOps == {"findNestedPhpControlFlow", "extractPhpFunctionCalls"}

\* C6: on well-formed input, block-end location takes the first opening
\* brace at or after the start position and ends the block at the smallest
\* later position where opening minus closing braces is zero; the body is
\* exactly the text strictly between that brace and that position.
C6_BlockEndMinimal ==
    (out.op \in BlockOps /\ WellFormed(content) /\ out.block.openBrace # -1)
        => LET open == out.block.openBrace
               zeros == ZeroBalance(content, open)
           IN  /\ At(content, open) = "{"
               /\ \A k \in out.startPos..(open - 1) : At(content, k) # "{"
               /\ zeros # {}
               /\ \A p \in zeros : out.block.bodyEnd <= p
               /\ out.block.bodyEnd \in zeros
               /\ out.block.braceCount = 0
               /\ out.block.body = Slice(content, open + 1, out.block.bodyEnd)

\* a block that holds a nested block was located in well-formed input
C6_Witness ==
    /\ out.op \in BlockOps
    /\ WellFormed(content)
    /\ out.block.found
    /\ Contains(out.block.body, "{")

\* C10: when the opening brace has no matching closing brace before the end
\* of input, block-end location finds no end and the candidate is skipped:
\* no children and no calls come from it.
C10_UnmatchedSkipped ==
    (out.op \in BlockOps /\ out.block.openBrace # -1
       /\ ZeroBalance(content, out.block.openBrace) = {})
        => /\ ~out.block.found
           /\ out.op = "findNestedPhpControlFlow" => out.children = <<>>
           /\ out.op = "extractPhpFunctionCalls" => out.calls = <<>>

(***************************************************************************)
(* The Python scope predicate and hard failures.                           *)
(***************************************************************************)
IsDefHeader(line) == HasPrefix(TrimSpace(line), "def ") /\ HasSuffix(TrimSpace(line), ":")

IsBlockHeader(line) == HasSuffix(TrimSpace(line), ":")

\* line n of lines is within a callable: a preceding shallower `def` header
\* with no shallower header of another kind between it and the line
WithinCallable(lines, n) ==
    \E h \in 1..(n - 1) :
       /\ IsDefHeader(lines[h])
       /\ Indent(lines[h]) < Indent(lines[n])
       /\ \A k \in (h + 1)..(n - 1) :
             ~(/\ Indent(lines[k]) < Indent(lines[n])
               /\ IsBlockHeader(lines[k])
               /\ ~IsDefHeader(lines[k]))

\* the number of the line that holds position pos
LineOf(text, pos) == countLines(Slice(text, 0, pos))

\* C7: at the first character of a non-blank line, isPythonWithinFunction is
\* true exactly when the line is indented deeper than the nearest preceding
\* shallower `def` header with no shallower other block header in between;
\* an unindented line after a completed top-level function is not within it.
C7_WithinCallable ==
    (/\ out.op = "isPythonWithinFunction"
     /\ TrimSpace(SplitLines(content)[LineOf(content, out.pos)]) # ""
     /\ out.pos = LineStartOf(content, out.pos)
                    + Indent(SplitLines(content)[LineOf(content, out.pos)]))
        => (out.value <=> WithinCallable(SplitLines(content), LineOf(content, out.pos)))

\* C9: analyzePythonFile returns a summary for every input text; it never
\* aborts with an out-of-range slice or index.
C9_NeverAborts ==
    out.op = "analyzePythonFile" => ~out.result.panicked

(***************************************************************************)
(* The rules of the resolver.                                              *)
(***************************************************************************)
\* the attributes of an element that a rule of the resolver looks at
TriggerKeys(attrs) ==
    { k \in DOMAIN attrs :
        HasPrefix(k, "on") \/ HasPrefix(k, "hx-") \/ k \in {"data-function", "action"} }

\* value is `f()` for an identifier f
IsBareCall(value) ==
    FirstCallIdent(value) # "" /\ value = FirstCallIdent(value) \o "()"

OnclickOnly(e) ==
    /\ TriggerKeys(e.Attributes) = {"onclick"}
    /\ IsBareCall(e.Attributes["onclick"])

\* C11: for an element whose only rule-triggering attribute is onclick with
\* value `f()`, the linked-function list is exactly [f] when f is a key of
\* the function registry and is empty when it is not.
C11_OnclickCall ==
    \A e \in ResolvedElements :
       OnclickOnly(e) =>
          e.LinkedFunctions =
             IF FirstCallIdent(e.Attributes["onclick"]) \in DOMAIN allFunctions
             THEN <<FirstCallIdent(e.Attributes["onclick"])>>
             ELSE <<>>

\* the resolver has linked such an element to its registered handler, beside
\* another registered function
C11_Witness ==
    /\ pc = "done"
    /\ Cardinality(DOMAIN allFunctions) > 1
    /\ \E e \in ResolvedElements :
          /\ OnclickOnly(e)
          /\ e.LinkedFunctions = <<FirstCallIdent(e.Attributes["onclick"])>>

\* the element's only rule-triggering attribute is action = [dir/]<name>.php
ActionOnly(e) ==
    /\ TriggerKeys(e.Attributes) = {"action"}
    /\ HasSuffix(e.Attributes["action"], ".php")
    /\ ~Contains(e.Attributes["action"], "?")

\* <name>: the value without its directories and without the extension
ActionName(value) == AfterLast(TrimSuffix(value, ".php"), "/")

SeqRange(s) == { s[i] : i \in 1..Len(s) }

\* C12: for an element whose only rule-triggering attribute is action with
\* value [dir/]<name>.php, the linked functions are exactly the registered
\* names that equal <name>, or start with <name> followed by "_", letter case
\* ignored.
C12_FormAction ==
    \A e \in ResolvedElements :
       ActionOnly(e) =>
          SeqRange(e.LinkedFunctions) =
             { n \in DOMAIN allFunctions :
                 \/ ToLower(n) = ToLower(ActionName(e.Attributes["action"]))
                 \/ HasPrefix(ToLower(n),
                              ToLower(ActionName(e.Attributes["action"])) \o "_") }

\* a form action has been linked to the function of its name and to one
\* prefixed by it
C12_Witness ==
    /\ pc = "done"
    /\ \E e \in ResolvedElements :
          /\ ActionOnly(e)
          /\ Contains(e.Attributes["action"], "/")
          /\ Len(e.LinkedFunctions) = 2

ScenarioA == "class Foo { public function bar($x) { baz(); } }"

ParamNames(fn) == [k \in 1..Len(fn.Args) |-> fn.Args[k].Name]

\* the summary of scenario A but for the parameter names: one class Foo with
\* one method bar that calls baz only, and no free function
ScenarioAShape(r) ==
    /\ Len(r.Classes) = 1
    /\ r.Classes[1].Name = "Foo"
    /\ Len(r.Classes[1].Methods) = 1
    /\ r.Classes[1].Methods[1].Name = "bar"
    /\ r.Classes[1].Methods[1].Calls = <<"baz">>
    /\ \A k \in 1..Len(r.Functions) : r.Functions[k].Name # "bar"

\* C13 as stated: on scenario A, analyzePhpFile yields one class Foo with one
\* method bar whose single parameter is named x and whose calls are exactly
\* baz, and bar is not a free function.
C13_ScenarioA_Original ==
    (out.op = "analyzePhpFile" /\ content = ScenarioA) =>
        /\ ScenarioAShape(out.result)
        /\ ParamNames(out.result.Classes[1].Methods[1]) = <<"x">>

\* C13: on scenario A, analyzePhpFile yields one class Foo with one method
\* bar whose single parameter is named $x (the sigil is kept) and whose calls
\* are exactly baz, and bar is not a free function.
C13_ScenarioA ==
    (out.op = "analyzePhpFile" /\ content = ScenarioA) =>
        /\ ScenarioAShape(out.result)
        /\ ParamNames(out.result.Classes[1].Methods[1]) = <<"$x">>

C13_Witness ==
    /\ out.op = "analyzePhpFile"
    /\ content = ScenarioA
    /\ Len(out.result.Classes) = 1
    /\ Len(out.result.Classes[1].Methods) = 1

\* the position of the brace that closes the body opened by the first brace
\* at or after pos; the end of the text when the body is not closed
BodyClose(text, pos) ==
    LET block == PhpBlock(text, pos)
    IN  IF block.openBrace # -1 /\ block.braceCount = 0 THEN block.bodyEnd ELSE Len(text)

\* C19: every method listed for a PHP class is declared inside that class's
\* own body: no function declared after the class's closing brace, or inside
\* a later class, is in the list.
C19_MethodsInOwnBody ==
    out.op = "analyzePhpFile" =>
        \A c \in 1..Len(out.result.Classes) :
            \A k \in 1..Len(out.result.Classes[c].Methods) :
                out.result.Classes[c].Methods[k].Pos
                    < BodyClose(content, out.result.Classes[c].Pos)

\* the braces b at positions from..to that isWithinString does not place in a
\* quoted string
UnquotedBraces(text, from, to, b) ==
    Cardinality({ p \in from..to : At(text, p) = b /\ ~isWithinString(text, p) })

\* the positions at which the balance of the braces outside quoted strings,
\* counted from the body's start, returns to zero
UnquotedEnds(text, bodyStart) ==
    { i \in bodyStart..(Len(text) - 1) :
        1 + UnquotedBraces(text, bodyStart, i, "{")
          = UnquotedBraces(text, bodyStart, i, "}") }

\* C18: block-end location ignores a brace that isWithinString places inside
\* a quoted string: the block ends where the balance of the other braces
\* first returns to zero, and in the example the if block ends at the last
\* brace with while as its child.
C18_QuotedBracesIgnored ==
    out.op = "findNestedPhpControlFlow" =>
        /\ (out.block.openBrace # -1 /\ UnquotedEnds(content, out.block.bodyStart) # {}) =>
              \A i \in UnquotedEnds(content, out.block.bodyStart) : out.block.bodyEnd <= i
        /\ (content = QuotedBraceExample /\ out.startPos = 0) =>
              /\ out.block.bodyEnd = Len(content) - 1
              /\ [k \in 1..Len(out.children) |-> out.children[k].Type] = <<"while">>

\* the line of text that starts at position p
LineFrom(text, p) ==
    LET nl == Index(Slice(text, p, Len(text)), "\n")
    IN  IF nl = -1 THEN Slice(text, p, Len(text)) ELSE Slice(text, p, p + nl)

\* the start of the line that opens the block holding the line of pos: the
\* nearest earlier line that is not blank and is indented less; -1 when the
\* line of pos is in no block
Encloser(text, pos) ==
    LET lineStart == LineStartOf(text, pos)
        openers == { p \in LineStarts(text) :
                       /\ p < lineStart
                       /\ TrimSpace(LineFrom(text, p)) # ""
                       /\ Indent(LineFrom(text, p)) < Indent(LineFrom(text, lineStart)) }
    IN  IF openers = {} THEN -1 ELSE CHOOSE p \in openers : \A q \in openers : q <= p

\* C20: every field listed for a Python class is an assignment made directly
\* in the class body: none is inside a method body or after the end of the
\* class body.
C20_FieldsInClassBody ==
    (out.op = "analyzePythonFile" /\ ~out.result.panicked) =>
        \A c \in 1..Len(out.result.Classes) :
            \A k \in 1..Len(out.result.Classes[c].Fields) :
                Encloser(content, out.result.Classes[c].Fields[k].Pos)
                    = out.result.Classes[c].Pos

\* the registered names rule r links the element to, taken on its own
RuleNames(r, e) ==
    LET attrs == e.Attributes
        keys == DOMAIN attrs
        names == DOMAIN allFunctions
    IN  CASE r = 1 -> { n \in names : \E k \in keys :
                          /\ HasPrefix(k, "on") /\ Contains(attrs[k], "(")
                          /\ FirstCallIdent(attrs[k]) = n }
          [] r = 2 -> { n \in names : "data-function" \in keys /\ attrs["data-function"] = n }
          [] r = 3 -> { n \in names : "onclick" \in keys /\ attrs["onclick"] = n }
          [] r = 4 -> { n \in names : ActionApplies(attrs)
                                        /\ ActionMatches(n, ScriptName(attrs["action"])) }
          [] r = 5 -> { n \in names : \E k \in keys :
                          /\ HxApplies(k, attrs[k])
                          /\ HxMatches(n, AfterLast(attrs[k], "/")) }

\* the first rule that links the element to name n
Rank(n, e) ==
    CHOOSE r \in 1..5 : n \in RuleNames(r, e) /\ \A q \in 1..(r - 1) : n \notin RuleNames(q, e)

\* C15: the linked-function list of an element holds no name twice and is
\* ordered by rule precedence: a name first linked by an earlier rule comes
\* before a name first linked by a later rule.
C15_NoDuplicatesRuleOrder ==
    \A e \in ResolvedElements :
       LET linked == e.LinkedFunctions
       IN  /\ \A i, j \in 1..Len(linked) : i < j => linked[i] # linked[j]
           /\ \A i \in 1..Len(linked) : \E r \in 1..5 : linked[i] \in RuleNames(r, e)
           /\ \A i, j \in 1..Len(linked) :
                 i < j => Rank(linked[i], e) <= Rank(linked[j], e)

\* an element has been linked to two names by different rules, one of them
\* produced by two rules
C15_Witness ==
    /\ pc = "done"
    /\ \E e \in ResolvedElements :
          /\ Len(e.LinkedFunctions) >= 2
          /\ Rank(e.LinkedFunctions[1], e) < Rank(e.LinkedFunctions[2], e)
          /\ \E r1, r2 \in 1..5 :
                /\ r1 < r2
                /\ RuleNames(r1, e) \cap RuleNames(r2, e) # {}

\* the number of files the summary includes, over all languages
TotalFiles(s) ==
    Len(s.GoFiles) + Len(s.PhpFiles) + Len(s.PythonFiles) + Len(s.HtmlFiles)
      + Len(s.CssFiles) + Len(s.SqlFiles)

\* C16: with a limit N > 0 the summary returned includes at most N files in
\* total, over all languages; with the limit 0 it includes every analysed
\* file.
C16_MaxLimitsTotal ==
    pc = "done" =>
        /\ config.MaxResults > 0 => TotalFiles(summary) <= config.MaxResults
        /\ config.MaxResults = 0 => TotalFiles(summary) = Len(files)

FileEntries == { files[k] : k \in { j \in 1..Len(files) : ~files[j].isDir } }

\* the three conditions of file selection under the given exclude patterns:
\* the base name is a target (or there are none), no exclude pattern matches
\* the base name or the name of a containing directory, and an include
\* pattern matches the base name (or there are none)
Selected(entry, excludes) ==
    /\ Len(config.TargetFiles) = 0
          \/ \E k \in 1..Len(config.TargetFiles) : config.TargetFiles[k] = Name(entry)
    /\ \A k \in 1..Len(entry.path) : ~MatchesAny(excludes, entry.path[k])
    /\ Len(config.IncludePatterns) = 0 \/ MatchesAny(config.IncludePatterns, Name(entry))

\* the patterns given with -exclude, and venv when it is not among them
WithVenv(excludes) ==
    IF \E k \in 1..Len(excludes) : excludes[k] = "venv" THEN excludes
    ELSE Append(excludes, "venv")

FunctionsOf(k) ==
    IF \E i \in 1..Len(summary.GoFiles) : summary.GoFiles[i].FilePath = k
    THEN summary.GoFiles[CHOOSE i \in 1..Len(summary.GoFiles) :
                            summary.GoFiles[i].FilePath = k].Functions
    ELSE IF \E i \in 1..Len(summary.PhpFiles) : summary.PhpFiles[i].FilePath = k
    THEN summary.PhpFiles[CHOOSE i \in 1..Len(summary.PhpFiles) :
                             summary.PhpFiles[i].FilePath = k].Functions
    ELSE IF \E i \in 1..Len(summary.PythonFiles) : summary.PythonFiles[i].FilePath = k
    THEN summary.PythonFiles[CHOOSE i \in 1..Len(summary.PythonFiles) :
                                summary.PythonFiles[i].FilePath = k].Functions
    ELSE <<>>

\* the places <<file, index>> at which a function named n is defined
Definitions(n) ==
    { <<k, i>> \in (1..Len(files)) \X (1..4) :
         i <= Len(FunctionsOf(k)) /\ FunctionsOf(k)[i].Name = n }

DefinedNames ==
    { FunctionsOf(k)[i].Name :
         <<k, i>> \in { <<a, b>> \in (1..Len(files)) \X (1..4) : b <= Len(FunctionsOf(a)) } }

\* the last definition of n in walk order
LastDefinition(n) ==
    LET d == CHOOSE x \in Definitions(n) :
                \A y \in Definitions(n) : y[1] < x[1] \/ (y[1] = x[1] /\ y[2] <= x[2])
    IN  FunctionsOf(d[1])[d[2]]

\* C14: after the first pass the registry holds, for every name, the
\* function of the last file in walk order that defines it, whatever the
\* languages of the files, and registering a file's functions a second time
\* leaves the registry as it is.
C14_LastWriteWins ==
    /\ pc = "resolve" =>
          /\ DOMAIN allFunctions = DefinedNames
          /\ \A n \in DefinedNames : allFunctions[n] = LastDefinition(n)
    /\ (pc \in {"walk", "resolve"} /\ idx > 1) =>
          RegisterFunctions(allFunctions, FunctionsOf(idx - 1)) = allFunctions

\* the first pass is over; a name is defined by files of two languages with
\* different functions, and the registry holds the later one
C14_Witness ==
    /\ pc = "resolve"
    /\ \E n \in DefinedNames :
          \E x, y \in Definitions(n) :
             /\ x[1] < y[1]
             /\ files[x[1]].kind # files[y[1]].kind
             /\ FunctionsOf(x[1])[x[2]] # FunctionsOf(y[1])[y[2]]
             /\ allFunctions[n] = FunctionsOf(y[1])[y[2]]
             /\ files[y[1]].kind = "php"

\* C28: every name in an element's linked-function list is a key of the
\* function registry the resolver ran with, whatever the element's attributes.
C28_LinkedAreRegistered ==
    \A e \in ResolvedElements : SeqRange(e.LinkedFunctions) \subseteq DOMAIN allFunctions

\* the resolver has run on an element that names an unregistered function in
\* one attribute and is linked through another
C28_Witness ==
    /\ pc = "done"
    /\ \E e \in ResolvedElements :
          /\ e.LinkedFunctions # <<>>
          /\ \E k \in DOMAIN e.Attributes :
                /\ k \in {"data-function", "onclick"}
                /\ e.Attributes[k] \notin DOMAIN allFunctions

\* the attributes rule 5 reads: the name starts with hx- and the value holds /
HxKeys(attrs) ==
    { k \in DOMAIN attrs : HasPrefix(k, "hx-") /\ Contains(attrs[k], "/") }

\* s: the last segment of the value, lower-cased, without .html, then .php
HxSegment(value) == TrimSuffix(TrimSuffix(ToLower(AfterLast(value, "/")), ".html"), ".php")

\* g: the name, lower-cased, without handler, then endpoint, then controller
HxStem(f) ==
    TrimSuffix(TrimSuffix(TrimSuffix(ToLower(f), "handler"), "endpoint"), "controller")

\* C26: on an element whose rule-triggering attributes are all hx-*
\* attributes, a registered function f is linked exactly when, for some hx-*
\* attribute whose value holds a slash, s contains g or g contains s; this
\* covers a value ending in a slash (s empty) and a function named handler
\* (g empty).
C26_HxPath ==
    \A e \in ResolvedElements :
       (\A k \in TriggerKeys(e.Attributes) : HasPrefix(k, "hx-")) =>
          SeqRange(e.LinkedFunctions) =
             { f \in DOMAIN allFunctions :
                 \E k \in HxKeys(e.Attributes) :
                    \/ Contains(HxSegment(e.Attributes[k]), HxStem(f))
                    \/ Contains(HxStem(f), HxSegment(e.Attributes[k])) }

\* the resolver has linked an element whose hx-* value ends in a slash to the
\* function named handler and to another one
C26_Witness ==
    /\ pc = "done"
    /\ \E e \in ResolvedElements :
          /\ TriggerKeys(e.Attributes) = {"hx-post"}
          /\ HxSegment(e.Attributes["hx-post"]) = ""
          /\ "handler" \in SeqRange(e.LinkedFunctions)
          /\ Len(e.LinkedFunctions) = 2

\* an HTML file summary without the linked functions of its elements
WithoutLinks(htmlFile) ==
    [FilePath |-> htmlFile.FilePath,
     Elements |-> [j \in 1..Len(htmlFile.Elements) |->
                     [ID |-> htmlFile.Elements[j].ID,
                      Classes |-> htmlFile.Elements[j].Classes,
                      Attributes |-> htmlFile.Elements[j].Attributes,
                      Line |-> htmlFile.Elements[j].Line]]]

\* C30: a step of the second pass changes nothing but the LinkedFunctions of
\* markup elements: the registries and the summaries of the other files are
\* as before, and so are the HTML files' elements, in number, order, id,
\* classes, attributes and line.
C30_ResolverFrame ==
    [][(pc = "resolve" /\ pc' = "resolve") =>
          /\ allFunctions' = allFunctions
          /\ allStructs' = allStructs
          /\ summary'.GoFiles = summary.GoFiles
          /\ summary'.PhpFiles = summary.PhpFiles
          /\ summary'.PythonFiles = summary.PythonFiles
          /\ summary'.CssFiles = summary.CssFiles
          /\ summary'.SqlFiles = summary.SqlFiles
          /\ Len(summary'.HtmlFiles) = Len(summary.HtmlFiles)
          /\ \A i \in 1..Len(summary.HtmlFiles) :
                WithoutLinks(summary'.HtmlFiles[i]) = WithoutLinks(summary.HtmlFiles[i])]_vars

\* the second pass has linked an element that has an id and attributes, in a
\* walk that also summarised a Go file
C30_Witness ==
    /\ pc = "done"
    /\ summary.GoFiles # <<>>
    /\ \E e \in AllElements :
          /\ e.LinkedFunctions # <<>>
          /\ e.ID # ""
          /\ DOMAIN e.Attributes # {}

\* the control-flow forests the last operation returned, each with the start
\* position of the call that produced it (-1 for the root calls, which start
\* from no match)
ReturnedForests ==
    IF out.op = "findNestedPhpControlFlow"
    THEN <<[from |-> out.startPos, nodes |-> out.children]>>
    ELSE IF out.op \in {"extractPhpControlFlow", "extractPythonControlFlow"}
    THEN <<[from |-> -1, nodes |-> out.controls]>>
    ELSE IF out.op = "analyzePythonFile"
    THEN <<[from |-> -1, nodes |-> out.result.ControlFlows]>>
    ELSE <<>>

\* every nested call below a call that started at from was made with a
\* start position greater than its caller's; a node's Pos is the start
\* position of the call made for it
RECURSIVE Advances(_, _)
Advances(from, nodes) ==
    \A k \in 1..Len(nodes) :
       /\ nodes[k].Pos > from
       /\ Advances(nodes[k].Pos, nodes[k].Children)

\* C29: nested control-flow discovery returns, and each recursive call of
\* findNestedPhpControlFlow and findNestedPythonControlFlow is made with a
\* start position strictly greater than its caller's.
C29_NestedCallsAdvance ==
    /\ pc \in {"php", "python", "returned"}
    /\ \A f \in 1..Len(ReturnedForests) :
          Advances(ReturnedForests[f].from, ReturnedForests[f].nodes)

RECURSIVE Depth(_)
Depth(nodes) ==
    IF nodes = <<>> THEN 0
    ELSE 1 + Depth(nodes[CHOOSE k \in 1..Len(nodes) :
                            \A j \in 1..Len(nodes) :
                               Depth(nodes[j].Children) <= Depth(nodes[k].Children)].Children)

\* a nested search has returned a chain of three nested calls
C29_Witness ==
    /\ pc = "returned"
    /\ out.op \in {"extractPhpControlFlow", "extractPythonControlFlow"}
    /\ Depth(out.controls) >= 3

\* the line of the brace that closes the PHP block opened by the first brace
\* after pos, braces inside quoted strings not being part of the block
\* structure; the last line when the block is not closed
PhpRangeEndLine(text, pos) ==
    LET block == PhpBlock(text, pos)
        ends == IF block.openBrace = -1 THEN {} ELSE UnquotedEnds(text, block.bodyStart)
    IN  IF ends = {} THEN countLines(text)
        ELSE LineOf(text, CHOOSE i \in ends : \A j \in ends : i <= j)

\* the line that ends the Python block whose header is the first non-blank
\* line from pos: the first later non-blank line indented no deeper than the
\* header; the last line when there is none
PyRangeEndLine(text, pos) ==
    LET lines == SplitLines(text)
        header == LineOf(text, SkipSpace(text, pos))
        enders == { j \in (header + 1)..Len(lines) :
                      /\ TrimSpace(lines[j]) # ""
                      /\ Indent(lines[j]) <= Indent(lines[header]) }
    IN  IF enders = {} THEN Len(lines)
        ELSE CHOOSE j \in enders : \A k \in enders : j <= k

RangeEndLine(lang, text, pos) ==
    IF lang = "php" THEN PhpRangeEndLine(text, pos) ELSE PyRangeEndLine(text, pos)

\* every node below the construct at position pos of line is within the
\* range of its parent
RECURSIVE WithinParent(_, _, _, _, _)
WithinParent(lang, text, line, pos, children) ==
    \A k \in 1..Len(children) :
       /\ children[k].Line >= line
       /\ children[k].Line <= RangeEndLine(lang, text, pos)
       /\ WithinParent(lang, text, children[k].Line, children[k].Pos, children[k].Children)

\* the control-flow nodes the last operation returned as roots
ReturnedRoots ==
    IF out.op = "findNestedPhpControlFlow"
    THEN <<[Type |-> "", Line |-> LineOf(content, out.startPos), Pos |-> out.startPos,
            Children |-> out.children]>>
    ELSE IF out.op \in {"extractPhpControlFlow", "extractPythonControlFlow"}
    THEN out.controls
    ELSE IF out.op = "analyzePythonFile" THEN out.result.ControlFlows
    ELSE <<>>

ReturnedLanguage ==
    IF out.op \in {"findNestedPhpControlFlow", "extractPhpControlFlow"} THEN "php" ELSE "python"

\* C27: in every control-flow forest of the PHP and Python extractors each
\* child's Line is at least its parent's Line and at most the line on which
\* the parent's block ends (the matching closing brace, or the first
\* non-blank line indented no deeper than the parent).
C27_ChildWithinParent ==
    \A r \in 1..Len(ReturnedRoots) :
       WithinParent(ReturnedLanguage, content, ReturnedRoots[r].Line,
                    ReturnedRoots[r].Pos, ReturnedRoots[r].Children)

\* the names of the decorators attached to the definition matched at pos:
\* the marker lines that directly precede its def line
OwnDecorators(text, pos) ==
    LET lines == SplitLines(text)
        header == LineOf(text, SkipSpace(text, pos))
        IsMarker(j) == HasPrefix(TrimSpace(lines[j]), "@")
    IN  { Slice(TrimSpace(lines[j]), 1, SkipWord(TrimSpace(lines[j]), 1)) :
            j \in { i \in 1..(header - 1) : \A h \in i..(header - 1) : IsMarker(h) } }

\* C21: a method that is not itself decorated with @staticmethod has no
\* leading self (cls for a method decorated with @classmethod) in its Args;
\* only the decorators attached to the method itself count, not those of
\* neighbouring methods in the look-back window.
C21_LeadingSelfDropped ==
    (out.op = "extractPythonClassMethods" /\ ~out.result.panicked) =>
        \A k \in 1..Len(out.result.methods) :
            LET method == out.result.methods[k]
                own == OwnDecorators(content, method.Pos)
                leading == IF "classmethod" \in own THEN "cls" ELSE "self"
            IN  "staticmethod" \notin own =>
                    (method.Args = <<>> \/ method.Args[1].Name # leading)

\* the pieces of a parameter list between the commas that are outside every
\* bracket
RECURSIVE TopLevelPieces(_, _, _, _)
TopLevelPieces(s, i, depth, piece) ==
    IF i >= Len(s) THEN <<piece>>
    ELSE LET c == At(s, i)
         IN  IF c = "," /\ depth = 0
             THEN <<piece>> \o TopLevelPieces(s, i + 1, 0, "")
             ELSE TopLevelPieces(s, i + 1,
                                 IF c \in {"(", "[", "{"} THEN depth + 1
                                 ELSE IF c \in {")", "]", "}"} THEN depth - 1
                                 ELSE depth,
                                 piece \o c)

\* the bare name a parameter declares: the text before its annotation and
\* its default value
BareName(piece) ==
    TrimSpace(SplitN2(SplitN2(piece, "=")[1], ":")[1])

\* the names of the declared parameters that are not star parameters
DeclaredNames(argsStr) ==
    LET pieces == TopLevelPieces(argsStr, 0, 0, "")
        names == [k \in 1..Len(pieces) |-> BareName(pieces[k])]
    IN  SelectSeq(names, LAMBDA n : n # "" /\ ~HasPrefix(n, "*"))

\* C22: parsePythonFunctionArgs returns exactly one Variable per declared
\* non-star parameter, named by the bare parameter name, also when an
\* annotation or a default value contains a comma, '=' or ':'.
C22_OneArgPerParameter ==
    out.op = "parsePythonFunctionArgs" =>
        [k \in 1..Len(out.args) |-> out.args[k].Name] = DeclaredNames(out.argsStr)

\* s is an identifier
IsIdentifier(s) == s # "" /\ \A i \in 0..(Len(s) - 1) : IsWordChar(At(s, i))

\* name is a bare identifier or one level of member access, x.f
IsBareOrOneLevel(name) ==
    \/ IsIdentifier(name)
    \/ \E i \in 0..(Len(name) - 1) :
          /\ At(name, i) = "."
          /\ IsIdentifier(Slice(name, 0, i))
          /\ IsIdentifier(Slice(name, i + 1, Len(name)))

\* the members of a sequence, each at its first occurrence
FirstOccurrences(seq) ==
    SelectSeq([k \in 1..Len(seq) |-> [v |-> seq[k], first |-> \A j \in 1..(k - 1) : seq[j] # seq[k]]],
              LAMBDA r : r.first)

\* the function declarations of the Go file at position g of the walk
FuncDeclsOf(g) == SelectSeq(files[g].decls, LAMBDA x : x.d = "func")

\* C23: every entry of a Go function's Calls is a bare identifier or one
\* level of member access (one dot); a call through a deeper chain such as
\* a.b.c() adds no entry; the list has no duplicates and is in the order of
\* first occurrence in the walk of the body.
C23_CallsBareOrOneLevel ==
    \A g \in 1..Len(summary.GoFiles) :
       \A f \in 1..Len(summary.GoFiles[g].Functions) :
          LET calls == summary.GoFiles[g].Functions[f].Calls
              walked == FirstOccurrences(
                            SelectSeq(StmtListCalls(FuncDeclsOf(g)[f].body), IsBareOrOneLevel))
          IN  /\ \A k \in 1..Len(calls) : IsBareOrOneLevel(calls[k])
              /\ \A j, k \in 1..Len(calls) : calls[j] = calls[k] => j = k
              /\ calls = [k \in 1..Len(walked) |-> walked[k].v]

\* every statement of a list and inside its statements, outermost first
RECURSIVE AllStmts(_)
RECURSIVE AllClauseStmts(_)
AllStmts(list) ==
    IF list = <<>> THEN <<>>
    ELSE LET x == Head(list)
         IN  <<x>>
               \o (CASE x.s = "if" -> AllStmts(x.body) \o AllStmts(x.els)
                     [] x.s = "switch" -> AllClauseStmts(x.clauses)
                     [] x.s \in {"for", "block"} -> AllStmts(x.body)
                     [] OTHER -> <<>>)
               \o AllStmts(Tail(list))

AllClauseStmts(clauses) ==
    IF clauses = <<>> THEN <<>>
    ELSE AllStmts(Head(clauses)) \o AllClauseStmts(Tail(clauses))

\* every node of a forest, at any depth
RECURSIVE AllNodes(_)
AllNodes(nodes) ==
    IF nodes = <<>> THEN <<>>
    ELSE <<Head(nodes)>> \o AllNodes(Head(nodes).Children) \o AllNodes(Tail(nodes))

IsControl(stmt) == stmt.s \in {"if", "for", "switch"}

\* the statements of the bodies of the Go file at position g of the walk
StmtsOf(g) ==
    LET decls == FuncDeclsOf(g)
    IN  AllClauseStmts([f \in 1..Len(decls) |-> decls[f].body])

\* the if, for and switch statements that are direct statements of the case
\* clauses of a switch
RECURSIVE DirectControls(_)
DirectControls(clauses) ==
    IF clauses = <<>> THEN <<>>
    ELSE SelectSeq(Head(clauses), IsControl) \o DirectControls(Tail(clauses))

\* C24: the Children of a switch node hold, in source order, every if, for
\* and switch statement that is a direct statement of one of its case
\* clauses.
C24_SwitchChildrenFlattened ==
    \A g \in 1..Len(summary.GoFiles) :
       LET stmts == StmtsOf(g)
           nodes == AllNodes(summary.GoFiles[g].ControlFlows)
       IN  \A i \in 1..Len(stmts), n \in 1..Len(nodes) :
              (stmts[i].s = "switch" /\ nodes[n].Type = "switch"
                 /\ nodes[n].Line = stmts[i].line) =>
                 LET direct == DirectControls(stmts[i].clauses)
                     children == nodes[n].Children
                 IN  /\ \A d \in 1..Len(direct) :
                           \E c \in 1..Len(children) :
                              /\ children[c].Type = direct[d].s
                              /\ children[c].Line = direct[d].line
                     /\ \A b, c \in 1..Len(children) :
                           b < c => children[b].Line <= children[c].Line

\* C25: every if, for and switch statement of a Go file is one node of the
\* control-flow forest of its summary, and only one: a nested statement is a
\* descendant of the enclosing statement's node and not a root as well.
C25_OneNodePerStatement ==
    \A g \in 1..Len(summary.GoFiles) :
       LET stmts == StmtsOf(g)
           nodes == AllNodes(summary.GoFiles[g].ControlFlows)
       IN  \A i \in 1..Len(stmts) :
              IsControl(stmts[i]) =>
                 Cardinality({ n \in 1..Len(nodes) :
                                 /\ nodes[n].Type = stmts[i].s
                                 /\ nodes[n].Line = stmts[i].line }) = 1

====
